---------------------------- MODULE Spec2Model ----------------------------
(***************************************************************************)
(* A model of the storage-stack performance estimator: the CPU and         *)
(* interface (NIC/HBA) cost models, the block Server, the DLM and the      *)
(* erasure-coding Gateway.                                                 *)
(*                                                                         *)
(* Numbers.  The code computes in Python floats; the model computes the    *)
(* same expressions in exact rational arithmetic (a pair <<n, d>> in       *)
(* lowest terms, d > 0), so an equality or an order that holds here holds  *)
(* of the formulas and not of one rounding.  The code was written for      *)
(* Python 2 (it casts with float() wherever it wants a true quotient of    *)
(* two integers), so a quotient of two integer sizes or counts (bsize,     *)
(* depth, strip widths, shard counts) is floored, as there.  Hardware      *)
(* rates are configured as floats (test.py: speed 2.5 * GIG), so times,    *)
(* bandwidths and loads are true quotients.                                *)
(*                                                                         *)
(* Scale.  TLC's integers are 32 bits wide, so sizes are counted in units  *)
(* of one minimal message (min_msg == 1) and the clock runs at SECOND      *)
(* ticks per second; the sizes the code compares a request against keep    *)
(* their order (min_msg < data_width < max_obj_size, strip = data_width).  *)
(* Every formula of the code is homogeneous in these units.                *)
(***************************************************************************)
EXTENDS Integers, Sequences, FiniteSets, TLC

-----------------------------------------------------------------------------
(* Exact rationals *)

RECURSIVE GCD(_, _)
GCD(a, b) == IF b = 0 THEN a ELSE GCD(b, a % b)

Abs(a) == IF a < 0 THEN 0 - a ELSE a

Norm(n, d) ==
    LET g == GCD(Abs(n), d)
    IN  <<n \div g, d \div g>>

Q(i) == <<i, 1>>

Frac(n, d) == Norm(n, d)

QAdd(x, y) ==
    LET g == GCD(x[2], y[2])
    IN  Norm(x[1] * (y[2] \div g) + y[1] * (x[2] \div g), (x[2] \div g) * y[2])

QNeg(x) == <<0 - x[1], x[2]>>

QSub(x, y) == QAdd(x, QNeg(y))

QMul(x, y) ==
    LET g1 == GCD(Abs(x[1]), y[2])
        g2 == GCD(Abs(y[1]), x[2])
    IN  <<(x[1] \div g1) * (y[1] \div g2), (x[2] \div g2) * (y[2] \div g1)>>

\* x / y for y > 0 (the code never divides by a non-positive number)
QDiv(x, y) == QMul(x, <<y[2], y[1]>>)

\* x < y by continued fractions: no cross product, so no overflow
RECURSIVE QLtPos(_, _)
QLtPos(x, y) ==
    LET xi == x[1] \div x[2]
        yi == y[1] \div y[2]
        xr == x[1] % x[2]
        yr == y[1] % y[2]
    IN  IF xi # yi THEN xi < yi
        ELSE IF yr = 0 THEN FALSE
        ELSE IF xr = 0 THEN TRUE
        ELSE QLtPos(<<y[2], yr>>, <<x[2], xr>>)

QLt(x, y) ==
    IF x[1] < 0 /\ y[1] >= 0 THEN TRUE
    ELSE IF x[1] >= 0 /\ y[1] < 0 THEN FALSE
    ELSE IF x[1] < 0 THEN QLtPos(QNeg(y), QNeg(x))
    ELSE QLtPos(x, y)

QLe(x, y) == ~QLt(y, x)

\* Python's min(a, b): b only when it is strictly smaller
QMin(x, y) == IF QLt(y, x) THEN y ELSE x

QMax(x, y) == IF QLt(x, y) THEN y ELSE x

\* int(x) of a non-negative number, as "%d" formats it
QFloor(x) == x[1] \div x[2]

Min(a, b) == IF b < a THEN b ELSE a

Max(a, b) == IF b > a THEN b ELSE a


-----------------------------------------------------------------------------
(* units and tuning constants *)

\* ticks per second (units.SECOND)
SECOND == 100

\* Server.py / Gateway.py: only warn if the queue delay goes above (ticks)
WARN_DELAY == 100

\* Server.py / Gateway.py: only warn if the queue delay adds this many percent
WARN_DELTA == 10

\* Server.__init__, Gateway.__init__, DLM.__init__: minimum request/response
min_msg == 1

\* Server.__init__: basic unit of data transfer
data_width == 4

\* Server.__init__: maximum object length
max_obj_size == 16

\* Server.__init__: scaling factors for CPU work and memory fetches
r_cpu_x == Q(1)

w_cpu_x == Q(1)

r_mem_x == Frac(1, 2)

w_mem_x == Q(1)

\* Server.__init__: time to handle a commit; DLM.__init__: time to handle a lock
commit_us == 1

lock_us == 1

\* Gateway.__init__: multipliers on request processing
read_mult == 2

write_mult == 3

-----------------------------------------------------------------------------
(* SimCPU.CPU *)

\* the hyperthreading multiplier, 1.3
hyperthread == Frac(13, 10)

\* a processor after construction: cores per chip, bus and memory transfer
\* rates (size units per second), DMA setup and thread dispatch costs (ticks)
CPU(cores, bus_bw, mem_bw, dma, disp) ==
    [cores |-> cores, hyperthread |-> hyperthread,
     bus_bw |-> bus_bw, mem_bw |-> mem_bw, dma_us |-> dma, disp_us |-> disp]

\* elapsed time to read that number of uncached bytes
mem_read(cpu, bytes) ==
    LET bw == Min(cpu.bus_bw, cpu.mem_bw)
    IN  QDiv(QMul(bytes, Q(SECOND)), Q(bw))

\* elapsed time to write that number of bytes
mem_write(cpu, bytes) ==
    LET bw == Min(cpu.bus_bw, cpu.mem_bw)
    IN  QDiv(QMul(bytes, Q(SECOND)), Q(bw))

\* processing limited by the lesser of the bus and the memory rates
process_limited(cpu, bytes) ==
    QDiv(QMul(bytes, Q(SECOND)), Q(Min(cpu.bus_bw, cpu.mem_bw)))

\* elapsed time to process that number of bytes
process(cpu, bytes) == QDiv(QMul(bytes, Q(SECOND)), Q(cpu.bus_bw))

\* the accessors the interface model calls
dma_us(cpu) == Q(cpu.dma_us)

thread_us(cpu) == Q(cpu.disp_us)

-----------------------------------------------------------------------------
(* SimIFC.IFC, NIC, HBA *)

\* queue_length without its cap
queue_length_uncapped(rho, max_depth) ==
    IF QLe(Q(1), rho) THEN Q(max_depth)
    ELSE QDiv(rho, QSub(Q(1), rho))

\* queue_length with the comparison of its cap reversed
queue_length_reversed(rho, max_depth) ==
    IF QLe(Q(1), rho) THEN Q(max_depth)
    ELSE LET avg == QDiv(rho, QSub(Q(1), rho))
         IN  IF QLt(Q(max_depth), avg) THEN avg ELSE Q(max_depth)

\* average queue depth as a function of load
queue_length(rho, max_depth) ==
    IF QLe(Q(1), rho) THEN Q(max_depth)
    ELSE LET avg == QDiv(rho, QSub(Q(1), rho))
         IN  IF QLt(avg, Q(max_depth)) THEN avg ELSE Q(max_depth)

\* the processor's queue_length, the same function
cpu_queue_length(rho, max_depth) ==
    IF QLe(Q(1), rho) THEN Q(max_depth)
    ELSE LET avg == QDiv(rho, QSub(Q(1), rho))
         IN  IF QLt(avg, Q(max_depth)) THEN avg ELSE Q(max_depth)

\* IFC.__init__ as NIC.__init__ leaves it; bw in bits per second
NIC(bw, cpu) ==
    [max_read_bw |-> bw \div 8, max_write_bw |-> bw \div 8, cpu |-> cpu,
     cpu_per_read |-> 0, cpu_per_write |-> 0,
     min_read_latency |-> 5, min_write_latency |-> 5,
     cpu_read_x |-> 5, cpu_write_x |-> 5,
     mem_read_x |-> 2, mem_write_x |-> 2]

\* IFC.__init__ as HBA.__init__ leaves it; bw in bits per second
HBA(bw, cpu) ==
    [max_read_bw |-> bw \div 8, max_write_bw |-> bw \div 8, cpu |-> cpu,
     cpu_per_read |-> 0, cpu_per_write |-> 0,
     min_read_latency |-> 1, min_write_latency |-> 1,
     cpu_read_x |-> 0, cpu_write_x |-> 0,
     mem_read_x |-> 0, mem_write_x |-> 0]

\* elapsed time for the specified transfer
read_time(ifc, bytes) ==
    QAdd(Q(ifc.min_read_latency),
         QDiv(QMul(Q(SECOND), bytes), Q(ifc.max_read_bw)))

write_time(ifc, bytes) ==
    QAdd(Q(ifc.min_write_latency),
         QDiv(QMul(Q(SECOND), bytes), Q(ifc.max_write_bw)))

\* CPU cost for the specified transfer
read_cpu(ifc, bytes) ==
    QAdd(QAdd(QAdd(QAdd(dma_us(ifc.cpu), thread_us(ifc.cpu)),
                   Q(ifc.cpu_per_read)),
              QMul(Q(ifc.mem_read_x), mem_read(ifc.cpu, bytes))),
         QMul(Q(ifc.cpu_read_x), process(ifc.cpu, bytes)))

write_cpu(ifc, bytes) ==
    QAdd(QAdd(QAdd(QAdd(dma_us(ifc.cpu), thread_us(ifc.cpu)),
                   Q(ifc.cpu_per_write)),
              QMul(Q(ifc.mem_write_x), mem_write(ifc.cpu, bytes))),
         QMul(Q(ifc.cpu_write_x), process(ifc.cpu, bytes)))

-----------------------------------------------------------------------------
(* SimDisk: the drives. Sizes, rates and times are Python integers where    *)
(* the code computes them from integers, and "/" between them floors.       *)

\* fundamental drive characterizing parameters, in the model's units
settle_read == 8

write_delta == 6

max_seek == 130

avg_seek == 55

nr_requests == 8

\* pseudo-magic numbers to approximate complex behavior
cache_multiplier == 96

cache_max_tracks == 4

cache_max_depth == 5

\* Disk(rpm, size, bw, heads): track and cylinder size inferred from rpm and
\* media speed
Disk(rpm, size, bw, heads) ==
    [kind |-> "Disk", rpm |-> rpm, size |-> size, media_speed |-> bw,
     heads |-> heads,
     settle_read |-> settle_read, write_delta |-> write_delta,
     max_seek |-> max_seek, avg_seek |-> avg_seek,
     nr_requests |-> nr_requests,
     do_writeback |-> TRUE, do_readahead |-> TRUE, sched_rotate |-> TRUE,
     trk_size |-> bw \div (rpm \div 60),
     cyl_size |-> (bw \div (rpm \div 60)) * heads,
     cylinders |-> size \div ((bw \div (rpm \div 60)) * heads),
     max_iops |-> 0, write_penalty |-> Q(1)]

\* DumbDisk(rpm, size, bw, heads): a disk with its smarts crippled
DumbDisk(rpm, size, bw, heads) ==
    [Disk(rpm, size, bw, heads) EXCEPT
        !.kind = "DumbDisk",
        !.do_writeback = FALSE, !.do_readahead = FALSE,
        !.sched_rotate = FALSE, !.nr_requests = 1,
        !.settle_read = 10, !.write_delta = 10,
        !.max_seek = 200, !.avg_seek = 80]

\* SSD(size, bw, iops, streams)
SSD(size, bw, iops, streams) ==
    [kind |-> "SSD", rpm |-> 0, size |-> size, media_speed |-> bw,
     heads |-> 1,
     settle_read |-> 0, write_delta |-> 0, max_seek |-> 0, avg_seek |-> 0,
     nr_requests |-> streams,
     do_writeback |-> TRUE, do_readahead |-> TRUE, sched_rotate |-> TRUE,
     trk_size |-> size, cyl_size |-> size, cylinders |-> 1,
     max_iops |-> iops, write_penalty |-> Frac(105, 100)]

\* how many cylinders a byte range spans
cylinders_in(disk, bytes) == 1 + (bytes \div disk.cyl_size)

\* a seek estimated from the read settle-down time at every distance
seekTime_short_only(disk, cyls, read) ==
    LET short_seek == disk.settle_read + (((cyls - 1) * disk.settle_read) \div 2)
    IN  IF cyls < 1 THEN Q(0)
        ELSE IF read THEN Q(short_seek)
        ELSE QAdd(Q(short_seek), Q(disk.write_delta))

\* a seek that takes a write no longer than a read
seekTime_as_read(disk, cyls, read) ==
    LET delta_cyl == (2 * disk.cylinders) \div 3
        us_per_cyl == Frac(disk.max_seek - disk.avg_seek, delta_cyl)
        long_seek == QSub(Q(disk.max_seek),
                          QMul(Q(disk.cylinders - cyls), us_per_cyl))
        short_seek == disk.settle_read + (((cyls - 1) * disk.settle_read) \div 2)
    IN  IF cyls < 1 THEN Q(0)
        ELSE IF cyls >= disk.cylinders THEN Q(disk.max_seek)
        ELSE QMin(Q(short_seek), long_seek)

\* seekTime(cyls, read): time to perform a seek across cyls cylinders, the
\* lesser of a long-seek and a short-seek estimate
seekTime(disk, cyls, read) ==
    LET delta_cyl == (2 * disk.cylinders) \div 3
        us_per_cyl == Frac(disk.max_seek - disk.avg_seek, delta_cyl)
        long_seek == QSub(Q(disk.max_seek),
                          QMul(Q(disk.cylinders - cyls), us_per_cyl))
        short_seek == disk.settle_read + (((cyls - 1) * disk.settle_read) \div 2)
        travel == IF cyls >= disk.cylinders THEN Q(disk.max_seek)
                  ELSE QMin(Q(short_seek), long_seek)
    IN  IF cyls < 1 THEN Q(0)
        ELSE IF read THEN travel ELSE QAdd(travel, Q(disk.write_delta))

\* a transfer charged a whole settle-down for every cylinder it touches
xferTime_whole_crossings(disk, bytes, read) ==
    QAdd(Q((bytes * SECOND) \div disk.media_speed),
         Q(((bytes + disk.cyl_size - 1) \div disk.cyl_size)
           * (IF read THEN disk.settle_read
              ELSE disk.settle_read + disk.write_delta)))

\* xferTime(bytes, read): media time plus the seeks into the next cylinder
xferTime(disk, bytes, read) ==
    QAdd(Q((bytes * SECOND) \div disk.media_speed),
         QMul(Frac(bytes, disk.cyl_size),
              Q(IF read THEN disk.settle_read
                ELSE disk.settle_read + disk.write_delta)))

\* cache_size(size, read, depth): a non-aggressive read-ahead cache size
cache_size(disk, size, read, depth) ==
    IF read /\ ~disk.do_readahead THEN 0
    ELSE IF ~read /\ ~disk.do_writeback THEN 0
    ELSE IF size > disk.trk_size THEN 0
    ELSE Min(size * cache_multiplier * Min(depth, cache_max_depth),
             cache_max_tracks * disk.trk_size)

\* latency(size, read, seq, depth) with the cache size c and the number n of
\* operations it holds: the time a request is likely to await rotation
disk_latency_cached(disk, l, c, n, read, seq, depth) ==
    IF seq
    THEN IF n > 1 THEN l \div n
         ELSE IF depth > 1 THEN l \div depth
         ELSE l
    ELSE IF disk.sched_rotate
    THEN IF read THEN l \div depth
         ELSE IF depth > n THEN l \div depth
         ELSE IF n > 1 THEN l \div n
         ELSE IF c > 0 THEN l \div 2
         ELSE l
    ELSE l

\* Disk.latency(size, read, seq, depth)
disk_latency(disk, size, read, seq, depth) ==
    LET l == IF disk.rpm > 0 THEN (SECOND \div (disk.rpm \div 60)) \div 2 ELSE 0
        c == cache_size(disk, size, read, depth)
        n == IF c > size THEN c \div size ELSE 1
    IN  disk_latency_cached(disk, l, c, n, read, seq, depth)

\* a drive that queues as deep as it is asked to
queue_depth_unclamped(disk, depth) == depth

\* requests can't queue deeper than the drive supports
queue_depth(disk, depth) ==
    IF depth > disk.nr_requests THEN disk.nr_requests ELSE depth

\* Disk.avgTime(bsize, file_size, read, seq, depth): average operation time
avgTime(disk, bsize, file_size, read, seq, depth) ==
    LET d == queue_depth(disk, depth)
        tXfer == xferTime(disk, bsize, read)
        tLatency == disk_latency(disk, bsize, read, seq, d)
        avgcyls == cylinders_in(disk, file_size) \div (d + 2)
    IN  IF seq THEN QAdd(tXfer, Q(tLatency))
        ELSE QAdd(QAdd(tXfer, Q(tLatency)), seekTime(disk, avgcyls, read))

\* SSD.avgTime(bsize, file_size, read, seq, depth): IOPS setup plus transfer
ssd_avgTime(disk, bsize, file_size, read, seq, depth) ==
    LET tXfer == IF read THEN xferTime(disk, bsize, read)
                 ELSE QMul(xferTime(disk, bsize, read), disk.write_penalty)
        setup == (SECOND \div disk.max_iops) \div queue_depth(disk, depth)
    IN  QAdd(Q(setup), tXfer)

-----------------------------------------------------------------------------
(* the data file system a Server is built on: each primitive returns its   *)
(* time and the CPU time baked into it (l['cpu'] * SECOND), both in ticks  *)

FS(t_open, t_rand, t_seq, t_meta, cpu) ==
    [t_open |-> t_open, t_rand |-> t_rand, t_seq |-> t_seq,
     t_meta |-> t_meta, cpu |-> cpu]

fs_open(fs) == [t |-> Q(fs.t_open), cpu |-> Q(fs.cpu)]

fs_create(fs) == [t |-> Q(fs.t_open), cpu |-> Q(fs.cpu)]

fs_read(fs, seq, depth) ==
    [t |-> Q(IF seq THEN fs.t_seq ELSE fs.t_rand), cpu |-> Q(fs.cpu)]

fs_write(fs, seq, depth) ==
    [t |-> Q(IF seq THEN fs.t_seq ELSE fs.t_rand), cpu |-> Q(fs.cpu)]

fs_getattr(fs) == [t |-> Q(fs.t_meta), cpu |-> Q(fs.cpu)]

fs_setattr(fs) == [t |-> Q(fs.t_meta), cpu |-> Q(fs.cpu)]

-----------------------------------------------------------------------------
(* Server *)

\* 1024 and 10^6 of the units module, in the model's size unit
KB == 1

MEG == 1

\* Server.__init__: the default size of the writeback buffer
writeback == 32

Server(data_fs, nic, hba, cpu, num_disks, num_nics, num_hbas, num_cpus) ==
    [data_fs |-> data_fs, nic |-> nic, hba |-> hba, cpu |-> cpu,
     num_disks |-> num_disks, num_nics |-> num_nics,
     num_hbas |-> num_hbas, num_cpus |-> num_cpus, write_buf |-> writeback]

\* "%dK, d=%d %s reads" % (bsize / 1024, depth, "seqential" if seq else "random")
Descr(bsize, depth, seq, what) ==
    <<bsize \div KB, depth, IF seq THEN "seqential" ELSE "random", what>>

\* "%4.2f" of a load: hundredths, rounded
Pct(x) == QFloor(QAdd(QMul(x, Q(100)), Frac(1, 2)))

\* the cores a node can use
avail_cores(num_cpus, cpu) ==
    QMul(Q(num_cpus * cpu.cores), cpu.hyperthread)

\* srv_bandwidth without the network ceiling
srv_bandwidth_no_net(bw_base, bw_n, bw_fs, bw_cpu, bw_hba) ==
    QMin(QMin(QMin(bw_base, bw_fs), bw_cpu), bw_hba)

\* srv_bandwidth as the minimum of the four ceilings alone
srv_bandwidth_ceilings(bw_base, bw_n, bw_fs, bw_cpu, bw_hba) ==
    QMin(QMin(QMin(bw_n, bw_fs), bw_cpu), bw_hba)

\* srv_bandwidth without the processor ceiling
srv_bandwidth_no_cpu(bw_base, bw_n, bw_fs, bw_cpu, bw_hba) ==
    QMin(QMin(QMin(bw_base, bw_n), bw_fs), bw_hba)

\* the achievable bandwidth of a Server call
srv_bandwidth(bw_base, bw_n, bw_fs, bw_cpu, bw_hba) ==
    QMin(QMin(QMin(QMin(bw_base, bw_n), bw_fs), bw_cpu), bw_hba)

\* the queueing delay a resource adds: its service time times its queue length
q_delay_of(t, ql) == QMul(t, ql)

\* srv_q_delay without the delay of the CPU
srv_q_delay_nic_only(nic_delay, cpu_delay) == QAdd(Q(0), nic_delay)

\* the queueing delay of a Server call: "q_delay = 0", then "q_delay += delay"
\* for the NIC and for the CPU
srv_q_delay(nic_delay, cpu_delay) == QAdd(QAdd(Q(0), nic_delay), cpu_delay)

\* the warnings of a Server read or write, in the order the code raises them
srv_warns(descr, latency, bw_base, bw_n, bw_cpu, bw_hba, iops, t_nic_msg, nic_load, nic_delay, t_cpu_msg, core_load, cpu_delay) ==
    (IF QLt(bw_hba, bw_base)
       THEN <<
              <<"Server HBA caps throughput", QFloor(QDiv(bw_hba, Q(MEG))), descr>>
            >>
       ELSE <<>>)
    \o (IF QLt(bw_n, bw_base)
       THEN << <<"Server NIC saturated", QFloor(t_nic_msg), QFloor(iops), descr>> >>
       ELSE <<>>)
    \o (IF QLe(Q(WARN_DELAY), nic_delay)
           /\ QLe(Q(WARN_DELTA), QDiv(QMul(Q(100), nic_delay), latency))
       THEN << <<"Server NIC load", Pct(nic_load), QFloor(nic_delay),
                 QFloor(QDiv(QMul(Q(100), nic_delay), latency)), descr>> >>
       ELSE <<>>)
    \o (IF QLt(bw_cpu, bw_base)
       THEN << <<"Server CPUs saturated", QFloor(t_cpu_msg), QFloor(iops), descr>> >>
       ELSE <<>>)
    \o (IF QLe(Q(WARN_DELAY), cpu_delay)
           /\ QLe(Q(WARN_DELTA), QDiv(QMul(Q(100), cpu_delay), latency))
       THEN << <<"Server CPU load", Pct(core_load), QFloor(cpu_delay),
                 QFloor(QDiv(QMul(Q(100), cpu_delay), latency)), descr>> >>
       ELSE <<>>)

\* Server.read(bsize, depth, seq): the network times of the request and of
\* the response, the CPU time of the messages, the cost of finding the object
srv_read_costs(sv, bsize, depth, seq) ==
    LET t_net_w == QAdd(Q(sv.nic.min_write_latency),
                        write_time(sv.nic, Q(min_msg + bsize)))
        op == fs_open(sv.data_fs)
        blk_per_read == max_obj_size \div bsize
        amortize == bsize < max_obj_size /\ seq
    IN  [sv |-> sv, bsize |-> bsize, depth |-> depth, seq |-> seq,
         descr |-> Descr(bsize, depth, seq, "reads"),
         b |-> Q(bsize),
         \* network times for request receipt and response transmission
         t_net_r |-> QAdd(Q(sv.nic.min_read_latency),
                          read_time(sv.nic, Q(min_msg))),
         t_net_w |-> t_net_w,
         bw_n |-> QDiv(Q(sv.num_nics * bsize * SECOND), t_net_w),
         \* CPU time to process the received packet and response
         cpu_msg |-> QAdd(QAdd(QAdd(read_cpu(sv.nic, Q(min_msg)),
                                    QMul(r_cpu_x, process(sv.cpu, Q(bsize)))),
                               QMul(r_mem_x, mem_read(sv.cpu, Q(bsize)))),
                          write_cpu(sv.nic, Q(min_msg + bsize))),
         \* the cost of finding the object we read from
         t_open |-> IF amortize THEN QDiv(op.t, Q(blk_per_read)) ELSE op.t,
         cpu_open |-> IF amortize THEN QDiv(op.cpu, Q(blk_per_read)) ELSE op.cpu]

\* Server.read splitting a request larger than the unit into whole reads
srv_read_io_whole_ops(c) ==
    LET w == data_width
        disks == Min(c.depth, c.sv.num_disks)
        ops == (c.bsize + w - 1) \div w
    IN  c @@
        [s |-> IF c.seq THEN TRUE ELSE c.bsize > w,
         d |-> IF c.seq
                 THEN IF w >= c.depth * c.bsize
                        THEN Max(1, (c.depth * c.bsize) \div w)
                        ELSE (c.depth * c.bsize) \div w
                 ELSE IF c.bsize <= w
                        THEN Max(1, c.depth \div disks)
                        ELSE Max(1, c.depth \div disks) * (c.bsize \div w),
         req_per_read |-> IF c.seq
                            THEN IF w >= c.depth * c.bsize
                                   THEN Q(w \div c.bsize)
                                   ELSE Frac(1, ops)
                            ELSE IF c.bsize <= w THEN Q(1) ELSE Frac(1, ops)]

\* Server.read: what I/O we are actually going to do
srv_read_io(c) ==
    LET w == data_width
        disks == Min(c.depth, c.sv.num_disks)
    IN  c @@
        [s |-> IF c.seq THEN TRUE ELSE c.bsize > w,
         d |-> IF c.seq
                 THEN IF w >= c.depth * c.bsize
                        THEN Max(1, (c.depth * c.bsize) \div w)
                        ELSE (c.depth * c.bsize) \div w
                 ELSE IF c.bsize <= w
                        THEN Max(1, c.depth \div disks)
                        ELSE Max(1, c.depth \div disks) * (c.bsize \div w),
         req_per_read |-> IF c.seq
                            THEN IF w >= c.depth * c.bsize
                                   THEN Q(w \div c.bsize)
                                   ELSE Frac(w, c.bsize)
                            ELSE IF c.bsize <= w THEN Q(1) ELSE Frac(w, c.bsize)]

\* Server.read: how long it will take to do that I/O
srv_read_disk(c) ==
    LET rd == fs_read(c.sv.data_fs, c.s, c.d)
        t_fr == QDiv(rd.t, c.req_per_read)
        t_dsk == QAdd(c.t_open, t_fr)
    IN  c @@
        [t_fr |-> t_fr,
         cpu_fs |-> QDiv(rd.cpu, c.req_per_read),
         bw_fs |-> QDiv(Q(SECOND * c.bsize * c.sv.num_disks), t_dsk)]

\* Server.read: the CPU and HBA ceilings, the latency and the rate it allows
srv_read_rates(c) ==
    LET cores == avail_cores(c.sv.num_cpus, c.sv.cpu)
        tot_cpu == QAdd(QAdd(c.cpu_msg, c.cpu_fs), c.cpu_open)
        latency == QAdd(QAdd(QAdd(c.cpu_msg, c.t_open), c.t_fr), c.t_net_w)
    IN  c @@
        [cores |-> cores,
         tot_cpu |-> tot_cpu,
         bw_cpu |-> QDiv(QMul(cores, Q(c.bsize * SECOND)), tot_cpu),
         \* the HBA could become a throughput bottleneck
         bw_hba |-> Q(c.sv.num_hbas * c.sv.hba.max_read_bw),
         \* the request latency and throughputs
         latency |-> latency,
         bw_base |-> QDiv(Q(c.depth * c.bsize * SECOND), latency)]

\* Server.read: the bandwidth and the operations per second
srv_read_throughput(c) ==
    LET bandwidth == srv_bandwidth(c.bw_base, c.bw_n, c.bw_fs, c.bw_cpu, c.bw_hba)
    IN  c @@ [bandwidth |-> bandwidth, iops |-> QDiv(bandwidth, c.b)]

\* Server.read: the loads of the NIC and of the CPU, and the queues they add
srv_read_queues(c) ==
    LET nic_load == QDiv(QMul(c.t_net_w, c.iops), Q(c.sv.num_nics * SECOND))
        nic_delay == q_delay_of(c.t_net_w, queue_length(nic_load, c.depth))
        core_load == QDiv(QMul(c.tot_cpu, c.iops), QMul(c.cores, Q(SECOND)))
        cpu_delay == q_delay_of(c.tot_cpu, cpu_queue_length(core_load, c.depth))
    IN  c @@
        [nic_load |-> nic_load, nic_delay |-> nic_delay,
         core_load |-> core_load, cpu_delay |-> cpu_delay,
         q_delay |-> srv_q_delay(nic_delay, cpu_delay)]

\* Server.read: the tuple returned, with the quantities it was computed from
srv_read_result(c) ==
    [latency |-> QAdd(c.latency, c.q_delay),
     bandwidth |-> c.bandwidth,
     load |-> [fs |-> QDiv(c.bandwidth, c.bw_fs),
               hba |-> QDiv(c.bandwidth, c.bw_hba),
               net |-> c.nic_load, cpu |-> c.core_load],
     warns |-> srv_warns(c.descr, c.latency, c.bw_base, c.bw_n, c.bw_cpu, c.bw_hba, c.iops,
                         c.t_net_w, c.nic_load, c.nic_delay,
                         c.tot_cpu, c.core_load, c.cpu_delay),
     base |-> c.latency, q_delay |-> c.q_delay,
     bw_base |-> c.bw_base, bw_n |-> c.bw_n, bw_fs |-> c.bw_fs,
     bw_cpu |-> c.bw_cpu, bw_hba |-> c.bw_hba,
     t_net |-> c.t_net_w, t_cpu |-> c.tot_cpu,
     nic_delay |-> c.nic_delay, cpu_delay |-> c.cpu_delay,
     fs_seq |-> c.s, fs_depth |-> c.d, req_per_op |-> c.req_per_read,
     t_fs |-> c.t_fr, t_open |-> c.t_open]

\* Server.read(bsize, depth, seq)
ServerRead(sv, bsize, depth, seq) ==
    srv_read_result(srv_read_queues(srv_read_throughput(srv_read_rates(
        srv_read_disk(srv_read_io(srv_read_costs(sv, bsize, depth, seq)))))))

\* Server.write(bsize, depth, seq): the wire times of the request and of the
\* response, the CPU time of the messages, the cost of creating the object
srv_write_costs(sv, bsize, depth, seq) ==
    LET t_net_r == QAdd(Q(sv.nic.min_read_latency),
                        read_time(sv.nic, Q(min_msg + bsize)))
        cr == fs_create(sv.data_fs)
        blk_per_write == max_obj_size \div bsize
        amortize == bsize < max_obj_size /\ seq
    IN  [sv |-> sv, bsize |-> bsize, depth |-> depth, seq |-> seq,
         descr |-> Descr(bsize, depth, seq, "writes"),
         b |-> Q(bsize),
         \* basic wire times for message receipt, dispatch and response
         t_net_r |-> t_net_r,
         t_net_w |-> QAdd(Q(sv.nic.min_write_latency),
                          write_time(sv.nic, Q(min_msg))),
         \* network bandwidth will be limited by the incoming requests
         bw_n |-> QDiv(Q(sv.num_nics * bsize * SECOND), t_net_r),
         \* CPU time to process the received packet, copy it, and send response
         t_dsp |-> read_cpu(sv.nic, Q(min_msg + bsize)),
         t_cpu |-> QAdd(QMul(w_cpu_x, process(sv.cpu, Q(bsize))),
                        QMul(w_mem_x, mem_write(sv.cpu, Q(bsize)))),
         t_rsp |-> write_cpu(sv.nic, Q(min_msg)),
         \* the cost of open/creating the object we write to
         t_crt |-> IF amortize THEN QDiv(cr.t, Q(blk_per_write)) ELSE cr.t,
         cpu_crt |-> IF amortize THEN QDiv(cr.cpu, Q(blk_per_write)) ELSE cr.cpu]

\* Server.write: how long it will take to flush the NVRAM to disk
srv_write_disk(c) ==
    LET w == data_width
        d == c.sv.write_buf \div (w * c.sv.num_disks)
        wr == fs_write(c.sv.data_fs, c.seq, d)
        t_fw == QDiv(QMul(wr.t, c.b), Q(w))
        t_disk == QAdd(c.t_crt, t_fw)
    IN  c @@
        [d |-> d,
         t_disk |-> t_disk,
         t_async |-> wr.cpu,
         bw_fs |-> QDiv(Q(SECOND * c.bsize * c.sv.num_disks), t_disk)]

\* Server.write with the deferred flush counted in the user-visible latency
srv_write_rates_async_visible(c) ==
    LET t_sync == QAdd(QAdd(c.t_dsp, c.t_rsp), c.t_cpu)
        cpu_per_op == QAdd(QAdd(t_sync, c.t_async), c.cpu_crt)
        cores == avail_cores(c.sv.num_cpus, c.sv.cpu)
        latency == QAdd(QAdd(c.t_net_w, t_sync), c.t_async)
    IN  c @@
        [bw_hba |-> Q(c.sv.num_hbas * c.sv.hba.max_read_bw),
         t_sync |-> t_sync,
         cpu_per_op |-> cpu_per_op,
         cores |-> cores,
         bw_cpu |-> QDiv(QMul(cores, Q(SECOND * c.bsize)), cpu_per_op),
         latency |-> latency,
         bw_base |-> QDiv(Q(c.depth * c.bsize * SECOND), latency)]

\* Server.write: the HBA and CPU ceilings, the latency and the rate it allows
srv_write_rates(c) ==
    LET t_sync == QAdd(QAdd(c.t_dsp, c.t_rsp), c.t_cpu)
        cpu_per_op == QAdd(QAdd(t_sync, c.t_async), c.cpu_crt)
        cores == avail_cores(c.sv.num_cpus, c.sv.cpu)
        latency == QAdd(c.t_net_w, t_sync)
    IN  c @@
        [\* the HBA could become a throughput bottleneck
         bw_hba |-> Q(c.sv.num_hbas * c.sv.hba.max_read_bw),
         \* the overall CPU load
         t_sync |-> t_sync,
         cpu_per_op |-> cpu_per_op,
         cores |-> cores,
         bw_cpu |-> QDiv(QMul(cores, Q(SECOND * c.bsize)), cpu_per_op),
         \* the request latency and throughputs
         latency |-> latency,
         bw_base |-> QDiv(Q(c.depth * c.bsize * SECOND), latency)]

\* Server.write: the bandwidth and the operations per second
srv_write_throughput(c) ==
    LET bandwidth == srv_bandwidth(c.bw_base, c.bw_n, c.bw_fs, c.bw_cpu, c.bw_hba)
    IN  c @@ [bandwidth |-> bandwidth, iops |-> QDiv(bandwidth, c.b)]

\* Server.write: the loads of the NIC and of the CPU, and the queues they add
srv_write_queues(c) ==
    LET nic_load == QDiv(QMul(c.t_net_w, c.iops), Q(c.sv.num_nics * SECOND))
        nic_delay == q_delay_of(c.t_net_w, queue_length(nic_load, c.depth))
        core_load == QDiv(QMul(c.cpu_per_op, c.iops), QMul(c.cores, Q(SECOND)))
        cpu_delay == q_delay_of(c.cpu_per_op, cpu_queue_length(core_load, c.depth))
    IN  c @@
        [nic_load |-> nic_load, nic_delay |-> nic_delay,
         core_load |-> core_load, cpu_delay |-> cpu_delay,
         q_delay |-> srv_q_delay(nic_delay, cpu_delay)]

\* Server.write: the tuple returned, with the quantities it was computed from
srv_write_result(c) ==
    [latency |-> QAdd(c.latency, c.q_delay),
     bandwidth |-> c.bandwidth,
     load |-> [fs |-> QDiv(c.bandwidth, c.bw_fs),
               hba |-> QDiv(c.bandwidth, c.bw_hba),
               net |-> c.nic_load, cpu |-> c.core_load],
     warns |-> srv_warns(c.descr, c.latency, c.bw_base, c.bw_n, c.bw_cpu, c.bw_hba, c.iops,
                         c.t_net_r, c.nic_load, c.nic_delay,
                         c.cpu_per_op, c.core_load, c.cpu_delay),
     base |-> c.latency, q_delay |-> c.q_delay,
     bw_base |-> c.bw_base, bw_n |-> c.bw_n, bw_fs |-> c.bw_fs,
     bw_cpu |-> c.bw_cpu, bw_hba |-> c.bw_hba,
     t_net |-> c.t_net_w, t_cpu |-> c.cpu_per_op,
     nic_delay |-> c.nic_delay, cpu_delay |-> c.cpu_delay,
     t_net_r |-> c.t_net_r, t_sync |-> c.t_sync, t_async |-> c.t_async,
     t_disk |-> c.t_disk, fs_depth |-> c.d]

\* Server.write(bsize, depth, seq)
ServerWrite(sv, bsize, depth, seq) ==
    srv_write_result(srv_write_queues(srv_write_throughput(srv_write_rates(
        srv_write_disk(srv_write_costs(sv, bsize, depth, seq))))))

\* Server.commit(): the second element of the tuple it returns is the name bw,
\* which commit never assigns: the bw the module imports from units
ServerCommit(sv) ==
    LET t_net_w == QAdd(Q(sv.nic.min_write_latency), write_time(sv.nic, Q(min_msg)))
        t_dsp == read_cpu(sv.nic, Q(min_msg))
        t_cpu == Q(commit_us)
        t_rsp == write_cpu(sv.nic, Q(min_msg))
        cpu_per_op == QAdd(QAdd(t_dsp, t_cpu), t_rsp)
        latency == QAdd(cpu_per_op, t_net_w)
        iops == QDiv(Q(SECOND), latency)
        cores == avail_cores(sv.num_cpus, sv.cpu)
        core_load == QDiv(QMul(cpu_per_op, iops), QMul(cores, Q(SECOND)))
        nic_load == QDiv(QMul(t_net_w, iops), Q(sv.num_nics * SECOND))
    IN  [latency |-> latency, bandwidth |-> "units.bw",
         load |-> [cpu |-> core_load, net |-> nic_load], warns |-> <<>>]

\* Server.getattr(cached, depth)
ServerGetattr(sv, cached, depth) ==
    LET t_net_w == QAdd(Q(sv.nic.min_write_latency), write_time(sv.nic, Q(min_msg)))
        t_dsp == read_cpu(sv.nic, Q(min_msg))
        t_rsp == write_cpu(sv.nic, Q(min_msg))
        ga == fs_getattr(sv.data_fs)
        t_fsg == QMul(ga.t, QSub(Q(1), cached))
        cpu_fsg == QMul(ga.cpu, QSub(Q(1), cached))
        cpu_per_op == QAdd(QAdd(t_dsp, cpu_fsg), t_rsp)
        latency == QAdd(QAdd(QAdd(t_dsp, t_fsg), t_rsp), t_net_w)
        iops == QDiv(Q(SECOND), latency)
        cores == avail_cores(sv.num_cpus, sv.cpu)
        core_load == QDiv(QMul(cpu_per_op, iops), QMul(cores, Q(SECOND)))
        nic_load == QDiv(QMul(t_net_w, iops), Q(sv.num_nics * SECOND))
    IN  [latency |-> latency, bandwidth |-> iops,
         load |-> [cpu |-> core_load, net |-> nic_load], warns |-> <<>>]

\* Server.setattr(cached, depth, sync)
ServerSetattr(sv, cached, depth, sync) ==
    LET t_net_w == QAdd(Q(sv.nic.min_write_latency), write_time(sv.nic, Q(min_msg)))
        t_dsp == read_cpu(sv.nic, Q(min_msg))
        t_rsp == write_cpu(sv.nic, Q(min_msg))
        ga == fs_getattr(sv.data_fs)
        t_fsg == QMul(ga.t, QSub(Q(1), cached))
        cpu_fsg == QMul(ga.cpu, QSub(Q(1), cached))
        sa == fs_setattr(sv.data_fs)
        t_fss == sa.t
        cpu_fss == sa.cpu
        cpu_per_op == QAdd(QAdd(QAdd(t_dsp, cpu_fsg), cpu_fss), t_rsp)
        latency == QAdd(QAdd(QAdd(QAdd(t_dsp, t_fsg), t_fss), t_rsp), t_net_w)
        iops == QDiv(Q(SECOND), latency)
        cores == avail_cores(sv.num_cpus, sv.cpu)
        core_load == QDiv(QMul(cpu_per_op, iops), QMul(cores, Q(SECOND)))
        nic_load == QDiv(QMul(t_net_w, iops), Q(sv.num_nics * SECOND))
    IN  [latency |-> latency, bandwidth |-> iops,
         load |-> [cpu |-> core_load, net |-> nic_load], warns |-> <<>>]

-----------------------------------------------------------------------------
(* DLM *)

DLM(nic, cpu, num_nics, num_cpus) ==
    [nic |-> nic, cpu |-> cpu, num_nics |-> num_nics, num_cpus |-> num_cpus]

\* a lock whose bandwidth is the rate bw_n at which the NIC sends responses
DlmLock_nic_bandwidth(dlm) ==
    LET t_net_r == QAdd(Q(dlm.nic.min_read_latency), read_time(dlm.nic, Q(min_msg)))
        t_net_w == QAdd(Q(dlm.nic.min_write_latency), write_time(dlm.nic, Q(min_msg)))
        cpu_msg == QAdd(read_cpu(dlm.nic, Q(min_msg)), write_cpu(dlm.nic, Q(min_msg)))
        latency == QAdd(QAdd(cpu_msg, Q(lock_us)), t_net_w)
    IN  [latency |-> latency, bandwidth |-> QDiv(Q(dlm.num_nics * SECOND), t_net_w),
         load |-> [cpu |-> QDiv(QAdd(cpu_msg, Q(lock_us)), Q(SECOND))],
         warns |-> <<>>, t_net_r |-> t_net_r, t_net_w |-> t_net_w]

\* DLM.lock(): expected performance for an uncontested lock
DlmLock(dlm) ==
    LET t_net_r == QAdd(Q(dlm.nic.min_read_latency), read_time(dlm.nic, Q(min_msg)))
        t_net_w == QAdd(Q(dlm.nic.min_write_latency), write_time(dlm.nic, Q(min_msg)))
        cpu_msg == QAdd(read_cpu(dlm.nic, Q(min_msg)), write_cpu(dlm.nic, Q(min_msg)))
        cpu_lock == Q(lock_us)
        latency == QAdd(QAdd(cpu_msg, cpu_lock), t_net_w)
    IN  [latency |-> latency, bandwidth |-> QDiv(Q(SECOND), latency),
         load |-> [cpu |-> QDiv(QAdd(cpu_msg, cpu_lock), Q(SECOND))],
         warns |-> <<>>, t_net_r |-> t_net_r, t_net_w |-> t_net_w]

-----------------------------------------------------------------------------
(* Gateway *)

Gateway(server, dlm, front_nic, back_nic, cpu, num_servers, num_front, num_back, num_cpus, n, m, strip) ==
    [server |-> server, dlm |-> dlm, front |-> front_nic, back |-> back_nic,
     cpu |-> cpu, num_servers |-> num_servers, num_fronts |-> num_front,
     num_backs |-> num_back, num_cpus |-> num_cpus, n |-> n, m |-> m,
     width |-> strip, read_ahead |-> TRUE,
     read_mem_x |-> n, write_mem_x |-> n + m]

\* a lock probability: never more than one lock for a request
P_lock_capped(gw, bsize, seq) ==
    IF seq THEN QMin(Q(1), Frac(bsize, gw.width * gw.n)) ELSE Q(1)

\* a lock amortised over one strip, and not over the n strips of a stripe
P_lock_one_strip(gw, bsize, seq) ==
    IF seq THEN Frac(bsize, gw.width) ELSE Q(1)

\* the probability that a request needs a new stripe lock
P_lock(gw, bsize, seq) ==
    IF seq THEN Frac(bsize, gw.width * gw.n) ELSE Q(1)

\* the achievable bandwidth of a Gateway call
gw_bandwidth(bw_base, bw_dlm, bw_svr, bw_nf, bw_nb, bw_cpu) ==
    QMin(QMin(QMin(QMin(QMin(bw_base, bw_dlm), bw_svr), bw_nf), bw_nb), bw_cpu)

\* one "load adds delay" warning, when the delay passes both thresholds
gw_load_warn(kind, load, delay, latency, descr) ==
    IF QLe(Q(WARN_DELAY), delay)
       /\ QLe(Q(WARN_DELTA), QDiv(QMul(Q(100), delay), latency))
    THEN << <<kind, Pct(load), QFloor(delay),
              QFloor(QDiv(QMul(Q(100), delay), latency)), descr>> >>
    ELSE <<>>

\* one "saturated" warning
gw_sat_warn(cond, kind, t, iops, descr) ==
    IF cond THEN << <<kind, QFloor(t), QFloor(iops), descr>> >> ELSE <<>>

\* Gateway.read(bsize, depth, seq): the message sizes and latencies, and the
\* cost of receiving and processing the original request
gw_read_request(gw, bsize, depth, seq) ==
    [gw |-> gw, bsize |-> bsize, depth |-> depth, seq |-> seq,
     descr |-> Descr(bsize, depth, seq, "reads"),
     b |-> Q(bsize),
     Lfr |-> Q(gw.front.min_read_latency),
     Lfw |-> Q(gw.front.min_write_latency),
     Lbr |-> Q(gw.back.min_read_latency),
     Lbw |-> Q(gw.back.min_write_latency),
     req |-> Q(min_msg),
     rsp |-> Q(min_msg + bsize),
     \* cost of receiving and processing original request
     t_front_r |-> QAdd(Q(gw.front.min_read_latency),
                        read_time(gw.front, Q(min_msg))),
     t_cpu_0 |-> read_cpu(gw.front, Q(min_msg))]

\* Gateway.read: cost of obtaining full stripe locks
gw_read_locks(c) ==
    LET P == P_lock(c.gw, c.bsize, c.seq)
        lk == DlmLock(c.gw.dlm)
        t_lock == QMul(P, lk.latency)
    IN  c @@
        [P |-> P,
         t_back_w_0 |-> QMul(P, QAdd(c.Lbw, write_time(c.gw.back, c.req))),
         t_lock |-> t_lock,
         t_back_r_0 |-> QMul(P, QAdd(c.Lbw, read_time(c.gw.back, c.req))),
         t_cpu_1 |-> QAdd(QAdd(c.t_cpu_0, QMul(P, read_cpu(c.gw.back, c.req))),
                          QMul(P, write_cpu(c.gw.back, c.req))),
         bw_dlm |-> QDiv(Q(c.bsize * SECOND), t_lock)]

\* read-ahead taken as serving twice the requests from a single read, which
\* discounts the messages and their CPU time along with the server time
gw_read_io_ahead_amortised(c) ==
    LET stripe == c.gw.width * c.gw.n
        large == c.bsize > stripe
        ahead == ~large /\ c.seq /\ c.gw.read_ahead
    IN  c @@
        [s |-> IF large THEN TRUE ELSE c.seq,
         prefetch |-> 1,
         req_per_read |-> IF large THEN Frac(stripe, c.bsize)
                          ELSE IF c.seq
                            THEN Q((stripe \div c.bsize) * (IF ahead THEN 2 ELSE 1))
                          ELSE Q(1),
         d |-> IF large THEN (c.depth * c.bsize) \div stripe
               ELSE IF c.seq
                 THEN Max(1, c.depth \div (stripe \div c.bsize))
                        * (IF ahead THEN 2 ELSE 1)
               ELSE c.depth]

\* Gateway.read: what I/O we will actually do
gw_read_io(c) ==
    LET stripe == c.gw.width * c.gw.n
        large == c.bsize > stripe
        ahead == ~large /\ c.seq /\ c.gw.read_ahead
    IN  c @@
        [s |-> IF large THEN TRUE ELSE c.seq,
         prefetch |-> IF ahead THEN 2 ELSE 1,
         req_per_read |-> IF large THEN Frac(stripe, c.bsize)
                          ELSE IF c.seq THEN Q(stripe \div c.bsize)
                          ELSE Q(1),
         d |-> IF large THEN (c.depth * c.bsize) \div stripe
               ELSE IF c.seq
                 THEN Max(1, c.depth \div (stripe \div c.bsize))
                        * (IF ahead THEN 2 ELSE 1)
               ELSE c.depth]

\* Gateway.read: the (amortized) costs of those read requests
gw_read_servers(c) ==
    LET sr == ServerRead(c.gw.server, c.gw.width, c.d, c.s)
    IN  c @@
        [svr_warns |-> sr.warns,
         t_svr |-> QDiv(sr.latency, QMul(Q(c.prefetch), c.req_per_read)),
         t_cpu_2 |-> QAdd(QAdd(c.t_cpu_1,
                          QDiv(QMul(Q(c.gw.n), write_cpu(c.gw.back, c.req)),
                               c.req_per_read)),
                          QDiv(QMul(Q(c.gw.n), read_cpu(c.gw.back, c.rsp)),
                               c.req_per_read)),
         t_back_w |-> QAdd(c.t_back_w_0,
                          QDiv(QMul(Q(c.gw.n),
                                    QAdd(c.Lbw, write_time(c.gw.back, c.req))),
                               c.req_per_read)),
         t_back_r |-> QAdd(c.t_back_r_0,
                          QDiv(QMul(Q(c.gw.n),
                                    QAdd(c.Lbr, read_time(c.gw.back, c.rsp))),
                               c.req_per_read)),
         \* scale the returned server bandwidth for the entire cluster
         bw_svr |-> QMul(sr.bandwidth, Q(c.gw.num_servers))]

\* Gateway.read: CPU time to process the data, assigned to t_cpu and not added
\* to it, and the cost of sending the response back to the client
gw_read_cpu(c) ==
    LET t_cpu_3 == QMul(Q(read_mult), process(c.gw.cpu, c.b))
        t_cpu_4 == QAdd(t_cpu_3, QMul(Q(c.gw.read_mem_x), mem_read(c.gw.cpu, c.b)))
    IN  c @@
        [t_cpu_4 |-> t_cpu_4,
         t_front_w |-> QAdd(c.Lfw, write_time(c.gw.front, c.rsp)),
         t_cpu_rsp |-> write_cpu(c.gw.front, c.rsp),
         t_cpu |-> QAdd(t_cpu_4, write_cpu(c.gw.front, c.rsp))]

\* Gateway.read: available network and CPU bandwidth, the request latency and
\* the rate it allows
gw_read_rates(c) ==
    LET cores == avail_cores(c.gw.num_cpus, c.gw.cpu)
        latency == QAdd(QAdd(QAdd(QAdd(c.t_front_w, c.t_back_w), c.t_cpu),
                             c.t_lock),
                        c.t_svr)
    IN  c @@
        [bw_nf |-> QDiv(Q(c.gw.num_fronts * c.bsize * SECOND), c.t_front_w),
         bw_nb |-> QDiv(Q(c.gw.num_backs * c.bsize * SECOND), c.t_back_r),
         cores |-> cores,
         bw_cpu |-> QDiv(QMul(cores, Q(c.bsize * SECOND)), c.t_cpu),
         latency |-> latency,
         bw_base |-> QDiv(Q(c.depth * c.bsize * SECOND), latency)]

\* Gateway.read: the bandwidth and the operations per second
gw_read_throughput(c) ==
    LET bandwidth == gw_bandwidth(c.bw_base, c.bw_dlm, c.bw_svr, c.bw_nf, c.bw_nb, c.bw_cpu)
    IN  c @@ [bandwidth |-> bandwidth, iops |-> QDiv(bandwidth, c.b)]

\* Gateway.read: front NIC, back NIC and CPU load and queue
gw_read_queues(c) ==
    LET front_load == QDiv(QMul(c.t_front_w, c.iops), Q(c.gw.num_fronts * SECOND))
        front_delay == q_delay_of(c.t_front_w, queue_length(front_load, c.depth))
        back_load == QDiv(QMul(c.t_back_w, c.iops), Q(c.gw.num_backs * SECOND))
        back_delay == q_delay_of(c.t_back_w, queue_length(back_load, c.depth))
        core_load == QDiv(QMul(c.t_cpu, c.iops), QMul(c.cores, Q(SECOND)))
        cpu_delay == q_delay_of(c.t_cpu, cpu_queue_length(core_load, c.depth))
    IN  c @@
        [front_load |-> front_load, front_delay |-> front_delay,
         back_load |-> back_load, back_delay |-> back_delay,
         core_load |-> core_load, cpu_delay |-> cpu_delay,
         q_delay |-> QAdd(QAdd(front_delay, back_delay), cpu_delay)]

\* Gateway.read: the warnings raised, in the order the code raises them
gw_read_warns(c) ==
    gw_sat_warn(QLt(c.bw_nf, c.bw_base), "Gateway front saturated",
                c.t_front_w, c.iops, c.descr)
    \o gw_sat_warn(QLe(Frac(99, 100), c.front_load), "Gateway front saturated",
                   c.t_front_w, c.iops, c.descr)
    \o gw_load_warn("Gateway front load", c.front_load, c.front_delay,
                    c.latency, c.descr)
    \o gw_sat_warn(QLt(c.bw_nb, c.bw_base), "Gateway back saturated",
                   c.t_back_r, c.iops, c.descr)
    \o gw_load_warn("Gateway back load", c.back_load, c.back_delay,
                    c.latency, c.descr)
    \o gw_sat_warn(QLt(c.bw_cpu, c.bw_base), "Gateway CPUs saturated",
                   c.t_cpu, c.iops, c.descr)
    \o gw_load_warn("Gateway CPU load", c.core_load, c.cpu_delay,
                    c.latency, c.descr)

\* Gateway.read: the tuple returned, with the quantities it was computed from
gw_read_result(c) ==
    [latency |-> QAdd(c.latency, c.q_delay),
     bandwidth |-> c.bandwidth,
     load |-> [server |-> QDiv(c.bandwidth, c.bw_svr),
               dlm |-> QDiv(c.bandwidth, c.bw_dlm),
               front |-> c.front_load, back |-> c.back_load,
               cpu |-> c.core_load],
     warns |-> gw_read_warns(c),
     svr_warns |-> c.svr_warns,
     base |-> c.latency, q_delay |-> c.q_delay,
     bw_base |-> c.bw_base, bw_dlm |-> c.bw_dlm, bw_svr |-> c.bw_svr,
     bw_nf |-> c.bw_nf, bw_nb |-> c.bw_nb, bw_cpu |-> c.bw_cpu,
     t_cpu |-> c.t_cpu, t_cpu_msgs |-> c.t_cpu_2,
     t_cpu_work |-> c.t_cpu_4, t_cpu_rsp |-> c.t_cpu_rsp,
     t_front_w |-> c.t_front_w, t_back_w |-> c.t_back_w, t_back_r |-> c.t_back_r,
     t_lock |-> c.t_lock, t_svr |-> c.t_svr, p_lock |-> c.P,
     svr_depth |-> c.d, svr_seq |-> c.s, prefetch |-> c.prefetch,
     front_delay |-> c.front_delay, back_delay |-> c.back_delay,
     cpu_delay |-> c.cpu_delay]

\* Gateway.read(bsize, depth, seq)
GatewayRead(gw, bsize, depth, seq) ==
    gw_read_result(gw_read_queues(gw_read_throughput(gw_read_rates(gw_read_cpu(
        gw_read_servers(gw_read_io(gw_read_locks(
            gw_read_request(gw, bsize, depth, seq)))))))))

\* gw_write_plan with a read-modify-write that writes every shard
gw_write_plan_all_shards(gw, bsize, seq) ==
    LET stripe == gw.width * gw.n
    IN  IF bsize > stripe
          THEN [regime |-> "large", reads |-> 0,
                writes |-> ((gw.n + gw.m) * bsize) \div stripe,
                commits |-> gw.n + gw.m, setattrs |-> 0, cksums |-> 0]
        ELSE IF seq
          THEN [regime |-> "seq", reads |-> 0, writes |-> gw.n + gw.m,
                commits |-> gw.n + gw.m, setattrs |-> 0, cksums |-> 0]
        ELSE [regime |-> "rmw", reads |-> gw.n, writes |-> gw.n + gw.m,
              commits |-> 1 + gw.m, setattrs |-> gw.n - 1,
              cksums |-> gw.n - 1]

\* the server operations and extra checksums one Gateway.write causes
gw_write_plan(gw, bsize, seq) ==
    LET stripe == gw.width * gw.n
    IN  IF bsize > stripe
          THEN [regime |-> "large", reads |-> 0,
                writes |-> ((gw.n + gw.m) * bsize) \div stripe,
                commits |-> gw.n + gw.m, setattrs |-> 0, cksums |-> 0]
        ELSE IF seq
          THEN [regime |-> "seq", reads |-> 0, writes |-> gw.n + gw.m,
                commits |-> gw.n + gw.m, setattrs |-> 0, cksums |-> 0]
        ELSE [regime |-> "rmw", reads |-> gw.n, writes |-> 1 + gw.m,
              commits |-> 1 + gw.m, setattrs |-> gw.n - 1,
              cksums |-> gw.n - 1]

\* the share of the servers that carries data: num_servers * n / (n + m)
gw_data_servers(gw) == (gw.num_servers * gw.n) \div (gw.n + gw.m)

\* Gateway.write(bsize, depth, seq): the message times, and the cost of
\* receiving and processing the original request
gw_write_request(gw, bsize, depth, seq) ==
    LET small == Q(min_msg)
        large == Q(min_msg + bsize)
    IN  [gw |-> gw, bsize |-> bsize, depth |-> depth, seq |-> seq,
         descr |-> Descr(bsize, depth, seq, "writes"),
         b |-> Q(bsize),
         small |-> small,
         large |-> large,
         LfR |-> QAdd(Q(gw.front.min_read_latency), read_time(gw.front, large)),
         Lfw |-> QAdd(Q(gw.front.min_read_latency), read_time(gw.front, small)),
         Lbr |-> QAdd(Q(gw.front.min_read_latency), read_time(gw.front, small)),
         Lbw |-> QAdd(Q(gw.front.min_read_latency), read_time(gw.front, small)),
         LbR |-> QAdd(Q(gw.front.min_read_latency), read_time(gw.front, large)),
         LbW |-> QAdd(Q(gw.front.min_read_latency), read_time(gw.front, large)),
         \* cost of receiving and processing original request
         t_front_r |-> QAdd(Q(gw.front.min_read_latency),
                            read_time(gw.front, large)),
         t_cpu_0 |-> read_cpu(gw.front, large)]

\* Gateway.write: cost of obtaining full stripe locks
gw_write_locks(c) ==
    LET P == P_lock(c.gw, c.bsize, c.seq)
        lk == DlmLock(c.gw.dlm)
        t_lock == QMul(P, lk.latency)
    IN  c @@
        [P |-> P,
         t_back_w_0 |-> QMul(P, c.Lbw),
         t_lock |-> t_lock,
         t_back_r_0 |-> QMul(P, c.Lbr),
         t_cpu_1 |-> QAdd(QAdd(c.t_cpu_0, QMul(P, read_cpu(c.gw.back, c.small))),
                          QMul(P, write_cpu(c.gw.back, c.small))),
         bw_dlm |-> QDiv(Q(c.bsize * SECOND), t_lock)]

\* Gateway.write: CPU time to process this write, assigned to t_cpu and not
\* added to it, and what I/O we will actually do
gw_write_io(c) ==
    LET t_cpu_2 == QMul(Q(write_mult), process(c.gw.cpu, c.b))
        stripe == c.gw.width * c.gw.n
        plan == gw_write_plan(c.gw, c.bsize, c.seq)
    IN  c @@
        [t_cpu_3 |-> QAdd(t_cpu_2,
                          QMul(Q(c.gw.write_mem_x), mem_write(c.gw.cpu, c.b))),
         stripe |-> stripe,
         plan |-> plan,
         d |-> IF plan.regime = "large" THEN (c.depth * c.bsize) \div stripe
               ELSE IF plan.regime = "seq"
                 THEN Max(1, (c.depth * c.bsize) \div stripe)
               ELSE c.depth]

\* Gateway.write: the server calls of the regime and the times they return
gw_write_servers(c) ==
    LET sw == ServerWrite(c.gw.server, c.gw.width, c.d,
                          IF c.plan.regime = "large" THEN TRUE ELSE c.seq)
        ss == ServerSetattr(c.gw.server, Q(0), 1, FALSE)
        sr == ServerRead(c.gw.server, c.gw.width, c.depth, c.seq)
    IN  c @@
        [t_s_w |-> IF c.plan.regime = "large"
                     THEN QMul(sw.latency, Q(c.bsize \div c.stripe))
                   ELSE IF c.plan.regime = "seq"
                     THEN QDiv(sw.latency, Q(c.stripe \div c.bsize))
                   ELSE sw.latency,
         t_s_r |-> IF c.plan.regime = "rmw" THEN sr.latency ELSE Q(0),
         t_s_s |-> IF c.plan.regime = "rmw" THEN ss.latency ELSE Q(0),
         svr_warns |-> IF c.plan.regime = "rmw" THEN sr.warns \o sw.warns
                       ELSE sw.warns,
         \* cost of additional checksum computation
         t_cksum |-> QMul(Q(c.plan.cksums * write_mult), process(c.gw.cpu, c.b)),
         bw_write |-> sw.bandwidth]

\* Gateway.write: the commit, the time at the servers and their bandwidth
gw_write_commit(c) ==
    LET sc == ServerCommit(c.gw.server)
    IN  c @@
        [t_cpu_4 |-> QAdd(c.t_cpu_3, c.t_cksum),
         t_svr |-> QAdd(QAdd(QAdd(c.t_s_r, c.t_s_w), c.t_s_s), sc.latency),
         bw_svr |-> QMul(c.bw_write, Q(gw_data_servers(c.gw)))]

\* Gateway.write: the messages we will exchange with the servers, and the
\* cost of sending the response back to the client
gw_write_messages(c) ==
    LET t_cpu_back ==
            QAdd(QAdd(QAdd(QAdd(QAdd(
                QMul(Q(c.plan.reads), write_cpu(c.gw.back, c.small)),
                QMul(Q(c.plan.reads), read_cpu(c.gw.back, c.large))),
                QMul(Q(c.plan.writes), write_cpu(c.gw.back, c.large))),
                QMul(Q(c.plan.writes), read_cpu(c.gw.back, c.small))),
                QMul(Q(c.plan.commits), write_cpu(c.gw.back, c.small))),
                QMul(Q(c.plan.setattrs), write_cpu(c.gw.back, c.small)))
    IN  c @@
        [t_back_w |-> QAdd(QAdd(QAdd(QAdd(c.t_back_w_0,
                        QMul(Q(c.plan.reads), c.Lbw)),
                        QMul(Q(c.plan.writes), c.LbW)),
                        QMul(Q(c.plan.commits), c.Lbw)),
                        QMul(Q(c.plan.setattrs), c.Lbw)),
         t_back_r |-> QAdd(QAdd(c.t_back_r_0,
                        QMul(Q(c.plan.reads), c.LbR)),
                        QMul(Q(c.plan.writes), c.LbR)),
         t_cpu_back |-> t_cpu_back,
         \* cost of sending the response back to the client
         t_front_w |-> c.Lfw,
         t_cpu_rsp |-> write_cpu(c.gw.front, c.small),
         t_cpu |-> QAdd(QAdd(c.t_cpu_4, t_cpu_back),
                        write_cpu(c.gw.front, c.small))]

\* Gateway.write: available network and CPU bandwidth, the request latency
\* and the rate it allows
gw_write_rates(c) ==
    LET cores == avail_cores(c.gw.num_cpus, c.gw.cpu)
        latency == QAdd(QAdd(QAdd(QAdd(c.t_front_w, c.t_back_w), c.t_cpu),
                             c.t_lock),
                        c.t_svr)
    IN  c @@
        [bw_nf |-> QDiv(Q(c.gw.num_fronts * c.bsize * SECOND), c.t_front_r),
         bw_nb |-> QDiv(Q(c.gw.num_backs * c.bsize * SECOND), c.t_back_w),
         cores |-> cores,
         bw_cpu |-> QDiv(QMul(cores, Q(c.bsize * SECOND)), c.t_cpu),
         latency |-> latency,
         bw_base |-> QDiv(Q(c.depth * c.bsize * SECOND), latency)]

\* Gateway.write: the bandwidth and the operations per second
gw_write_throughput(c) ==
    LET bandwidth == gw_bandwidth(c.bw_base, c.bw_dlm, c.bw_svr, c.bw_nf, c.bw_nb, c.bw_cpu)
    IN  c @@ [bandwidth |-> bandwidth, iops |-> QDiv(bandwidth, c.b)]

\* Gateway.write: front NIC, back NIC and CPU load and queue
gw_write_queues(c) ==
    LET front_load == QDiv(QMul(c.t_front_w, c.iops), Q(c.gw.num_fronts * SECOND))
        front_delay == q_delay_of(c.t_front_w, queue_length(front_load, c.depth))
        back_load == QDiv(QMul(c.t_back_w, c.iops), Q(c.gw.num_backs * SECOND))
        back_delay == q_delay_of(c.t_back_w, queue_length(back_load, c.depth))
        core_load == QDiv(QMul(c.t_cpu, c.iops), QMul(c.cores, Q(SECOND)))
        cpu_delay == q_delay_of(c.t_cpu, cpu_queue_length(core_load, c.depth))
    IN  c @@
        [front_load |-> front_load, front_delay |-> front_delay,
         back_load |-> back_load, back_delay |-> back_delay,
         core_load |-> core_load, cpu_delay |-> cpu_delay,
         q_delay |-> QAdd(QAdd(front_delay, back_delay), cpu_delay)]

\* Gateway.write: the warnings raised, in the order the code raises them
gw_write_warns(c) ==
    gw_sat_warn(QLt(c.bw_nf, c.bw_base), "Gateway front saturated",
                c.t_front_r, c.iops, c.descr)
    \o gw_load_warn("Gateway front load", c.front_load, c.front_delay,
                    c.latency, c.descr)
    \o gw_sat_warn(QLt(c.bw_nb, c.bw_base), "Gateway back saturated",
                   c.t_back_w, c.iops, c.descr)
    \o gw_load_warn("Gateway back load", c.back_load, c.back_delay,
                    c.latency, c.descr)
    \o gw_sat_warn(QLt(c.bw_cpu, c.bw_base), "Gateway CPUs saturated",
                   c.t_cpu, c.iops, c.descr)
    \o gw_load_warn("Gateway CPU", c.core_load, c.cpu_delay,
                    c.latency, c.descr)

\* Gateway.write: the tuple returned, with the quantities it was computed from
gw_write_result(c) ==
    [latency |-> QAdd(c.latency, c.q_delay),
     bandwidth |-> c.bandwidth,
     load |-> [server |-> QDiv(c.bandwidth, c.bw_svr),
               dlm |-> QDiv(c.bandwidth, c.bw_dlm),
               front |-> c.front_load, back |-> c.back_load,
               cpu |-> c.core_load],
     warns |-> gw_write_warns(c),
     svr_warns |-> c.svr_warns,
     base |-> c.latency, q_delay |-> c.q_delay,
     bw_base |-> c.bw_base, bw_dlm |-> c.bw_dlm, bw_svr |-> c.bw_svr,
     bw_nf |-> c.bw_nf, bw_nb |-> c.bw_nb, bw_cpu |-> c.bw_cpu,
     t_cpu |-> c.t_cpu, t_cpu_msgs |-> c.t_cpu_1,
     t_cpu_work |-> c.t_cpu_3, t_cpu_cksum |-> c.t_cksum,
     t_cpu_back |-> c.t_cpu_back, t_cpu_rsp |-> c.t_cpu_rsp,
     t_front_w |-> c.t_front_w, t_front_r |-> c.t_front_r,
     t_back_w |-> c.t_back_w, t_back_r |-> c.t_back_r,
     t_lock |-> c.t_lock, t_svr |-> c.t_svr, p_lock |-> c.P,
     plan |-> c.plan, svr_depth |-> c.d,
     front_delay |-> c.front_delay, back_delay |-> c.back_delay,
     cpu_delay |-> c.cpu_delay]

\* Gateway.write(bsize, depth, seq)
GatewayWrite(gw, bsize, depth, seq) ==
    gw_write_result(gw_write_queues(gw_write_throughput(gw_write_rates(
        gw_write_messages(gw_write_commit(gw_write_servers(gw_write_io(
            gw_write_locks(gw_write_request(gw, bsize, depth, seq))))))))))

-----------------------------------------------------------------------------
(* the simulated clusters: processors, interfaces, file systems, nodes *)

\* bounds of the exploration: the calls made on one cluster, the longest
\* queue asked of queue_length, and the grid of its loads (k / RhoDen, up to 2)
MaxCalls == 1

MaxQueue == 4

RhoDen == 8

Rhos == { Frac(k, RhoDen) : k \in 0 .. 2 * RhoDen }

\* a cluster: one kind of processor throughout, as test.py builds it
Cluster(name, cpu, nic_bw, front_bw, hba_bw, fs, n, m, servers, disks) ==
    LET sv == Server(fs, NIC(nic_bw, cpu), HBA(hba_bw, cpu), cpu, disks, 1, 1, 1)
        dl == DLM(NIC(nic_bw, cpu), cpu, 1, 1)
    IN  [name |-> name, server |-> sv, dlm |-> dl,
         gateway |-> Gateway(sv, dl, NIC(front_bw, cpu), NIC(nic_bw, cpu), cpu,
                             servers, 1, 1, 1, n, m, data_width)]

\* request sizes, around the strip (4), the object (16) and the stripes
\* (8, 16, 20), sizes that are no whole number of strips (6, 10), and the
\* numbers of requests in flight
Sizes == {1, 2, 4, 6, 8, 10, 16, 20, 32, 40}

Depths == {1, 2, 4, 8, 16}

\* The times of a Gateway call are ratios whose terms grow with every queue
\* the request crosses.  Each cluster below comes with the Gateway calls
\* whose values are all ratios of integers below 2^31, on which the
\* arithmetic of this module is exact; every Server call over Sizes and
\* Depths is such a call on every cluster.

ClusterA ==
    Cluster("A", CPU(1, 800, 1600, 1, 1), 800, 16, 800, FS(2, 4, 2, 2, 2),
            5, 2, 2, 4)

ReadsA ==
    ({3, 4, 20} \X {2} \X {FALSE})
    \cup ({1, 3} \X {4, 8, 16} \X {FALSE})
    \cup ({20} \X {2} \X {TRUE})

WritesA ==
    ({1, 2, 3, 4, 8, 16, 20} \X {2} \X {FALSE})
    \cup ({2, 3, 4, 8, 16, 20} \X {4} \X {FALSE})
    \cup ({2, 4, 8, 20} \X {8} \X {FALSE})
    \cup ({4} \X {16} \X {FALSE})
    \cup ({2} \X {2, 4, 8, 16} \X {TRUE})

ClusterB ==
    Cluster("B", CPU(2, 200, 400, 0, 1), 800, 16, 80000, FS(2, 2, 1, 4, 0),
            2, 1, 4, 1)

ReadsB ==
    ({3} \X {2} \X {FALSE})
    \cup ({1, 2, 3, 4} \X {4, 8} \X {FALSE})
    \cup ({1, 2, 3} \X {16} \X {FALSE})
    \cup ({1, 3} \X {2, 4, 8, 16} \X {TRUE})

WritesB ==
    ({1, 3, 4, 16, 20} \X {2} \X {FALSE})
    \cup ({1, 2, 3, 4, 8, 16, 20} \X {4, 8} \X {FALSE})
    \cup ({1, 2, 3, 4} \X {16} \X {FALSE})
    \cup ({16} \X {2} \X {TRUE})
    \cup ({4, 8, 16} \X {4} \X {TRUE})
    \cup ({3, 4, 8, 16} \X {8} \X {TRUE})
    \cup ({2, 3, 4, 8, 16} \X {16} \X {TRUE})

ClusterC ==
    Cluster("C", CPU(1, 400, 400, 0, 2), 800, 1600, 8000, FS(4, 4, 16, 2, 0),
            4, 2, 8, 2)

ReadsC ==
    ({1, 3, 4, 8} \X {4} \X {FALSE})
    \cup ({1, 3, 8} \X {8, 16} \X {FALSE})
    \cup ({1, 2, 4, 8} \X {4, 8, 16} \X {TRUE})

WritesC ==
    ({32} \X {2} \X {FALSE})
    \cup ({2, 8} \X {4} \X {FALSE})
    \cup ({2, 3, 8} \X {8, 16} \X {FALSE})
    \cup ({8, 16} \X {2, 4, 16} \X {TRUE})
    \cup ({4, 8, 16} \X {8} \X {TRUE})

ClusterD ==
    Cluster("D", CPU(1, 100, 400, 0, 2), 800, 160, 400, FS(40, 8, 8, 20, 2),
            5, 2, 2, 4)

ReadsD ==
    ({40} \X {4} \X {FALSE})
    \cup ({8, 16, 32} \X {8} \X {FALSE})
    \cup ({3, 4, 8, 16, 32} \X {16} \X {FALSE})
    \cup ({1, 2} \X {2} \X {TRUE})
    \cup ({1, 2, 4, 8, 20, 40} \X {4} \X {TRUE})
    \cup ({1, 2, 4, 8, 32} \X {8, 16} \X {TRUE})

WritesD ==
    ({1, 2, 3, 4, 8, 16, 20} \X {4} \X {TRUE})
    \cup ({3, 4} \X {8} \X {TRUE})

ClusterE ==
    Cluster("E", CPU(1, 100, 1600, 1, 1), 400, 160, 800, FS(40, 40, 1, 1, 2),
            4, 2, 2, 1)

ReadsE ==
    ({2, 3, 4} \X {2} \X {FALSE})
    \cup ({2, 3, 8, 16} \X {4} \X {FALSE})
    \cup ({1, 2, 3, 4, 8, 16} \X {8, 16} \X {FALSE})
    \cup ({1, 2, 4, 8, 16} \X {4} \X {TRUE})
    \cup ({1, 2, 4, 8, 20} \X {8, 16} \X {TRUE})

WritesE ==
    ({3} \X {4, 16} \X {FALSE})
    \cup ({2, 3} \X {8} \X {FALSE})
    \cup ({1, 2, 4, 8} \X {2} \X {TRUE})
    \cup ({1, 2, 3, 4, 8, 16} \X {4} \X {TRUE})
    \cup ({2, 3, 4, 8, 16} \X {8} \X {TRUE})
    \cup ({4} \X {16} \X {TRUE})

ClusterF ==
    Cluster("F", CPU(1, 400, 1600, 0, 1), 800, 400, 400, FS(2, 4, 2, 4, 1),
            5, 2, 8, 1)

ReadsF ==
    ({2, 16} \X {2} \X {FALSE})
    \cup ({1, 2, 3, 4, 8, 16} \X {4} \X {FALSE})
    \cup ({2, 3} \X {8, 16} \X {FALSE})
    \cup ({2} \X {1} \X {TRUE})
    \cup ({1, 2} \X {2} \X {TRUE})
    \cup ({1, 2, 3, 4} \X {4} \X {TRUE})
    \cup ({1, 2, 4} \X {8, 16} \X {TRUE})

WritesF ==
    ({1, 2, 4, 8, 20} \X {2} \X {FALSE})
    \cup ({1, 2, 3, 4, 8, 16, 20} \X {4, 8, 16} \X {FALSE})
    \cup ({20} \X {4, 8, 16} \X {TRUE})

ClusterG ==
    Cluster("G", CPU(1, 400, 1600, 1, 1), 400, 1600, 400, FS(1, 16, 8, 4, 2),
            2, 1, 4, 4)

ReadsG ==
    ({3, 4, 8} \X {8} \X {FALSE})
    \cup ({1, 2, 3, 4, 8} \X {16} \X {FALSE})
    \cup ({40} \X {2} \X {TRUE})
    \cup ({1, 4, 16, 40} \X {4} \X {TRUE})
    \cup ({1, 2, 3, 4, 40} \X {8, 16} \X {TRUE})

WritesG ==
    ({16} \X {1, 4} \X {FALSE})
    \cup ({1, 3, 4, 8, 16} \X {8} \X {FALSE})
    \cup ({3, 4, 8, 16} \X {16} \X {FALSE})
    \cup ({4, 8, 16} \X {4} \X {TRUE})
    \cup ({2, 4, 8} \X {8} \X {TRUE})
    \cup ({4, 8} \X {16} \X {TRUE})

ClusterH ==
    Cluster("H", CPU(1, 200, 200, 1, 1), 1600, 800, 80000, FS(40, 40, 16, 1, 2),
            2, 1, 4, 1)

ReadsH ==
    ({1, 2, 3, 8} \X {8} \X {FALSE})
    \cup ({1, 3, 8} \X {16} \X {FALSE})
    \cup ({1} \X {4} \X {TRUE})
    \cup ({1, 2, 4, 8} \X {8} \X {TRUE})
    \cup ({1, 2, 8, 16} \X {16} \X {TRUE})

WritesH ==
    ({2, 3, 4, 8} \X {4} \X {TRUE})
    \cup ({3, 4} \X {8} \X {TRUE})
    \cup ({4} \X {16} \X {TRUE})

ClusterI ==
    Cluster("I", CPU(1, 800, 1600, 1, 2), 800, 160, 400, FS(16, 8, 4, 1, 1),
            2, 1, 4, 1)

ReadsI ==
    ({8} \X {4} \X {FALSE})
    \cup ({1, 2, 3, 4, 8} \X {8, 16} \X {FALSE})
    \cup ({1} \X {2} \X {TRUE})
    \cup ({3, 4, 8} \X {4} \X {TRUE})
    \cup ({3, 4, 8, 16, 20} \X {8} \X {TRUE})
    \cup ({3, 8, 16, 20} \X {16} \X {TRUE})

WritesI ==
    ({16} \X {1, 16} \X {FALSE})
    \cup ({16, 20} \X {2, 4, 8} \X {FALSE})
    \cup ({8, 16} \X {2} \X {TRUE})
    \cup ({4, 8, 16} \X {4} \X {TRUE})
    \cup ({2, 4, 8, 16} \X {8} \X {TRUE})
    \cup ({1, 2, 4, 8, 16} \X {16} \X {TRUE})

ClusterJ ==
    Cluster("J", CPU(1, 200, 1600, 0, 0), 400, 80, 800, FS(4, 8, 2, 20, 0),
            5, 2, 2, 4)

ReadsJ ==
    ({32} \X {2} \X {FALSE})
    \cup ({3, 4, 8, 16, 20, 32} \X {4} \X {FALSE})
    \cup ({1, 2, 3, 4, 8, 16, 32} \X {8, 16} \X {FALSE})
    \cup ({1, 2, 20} \X {2} \X {TRUE})
    \cup ({1, 2, 3, 4, 8, 20} \X {4} \X {TRUE})
    \cup ({1, 2, 3, 4, 8} \X {8, 16} \X {TRUE})

WritesJ ==
    ({32} \X {2} \X {FALSE})
    \cup ({1, 2, 3, 4, 8, 16, 20, 32} \X {4, 8} \X {FALSE})
    \cup ({1, 2, 3, 4, 8, 16, 20} \X {16} \X {FALSE})
    \cup ({40} \X {1} \X {TRUE})
    \cup ({4, 20, 40} \X {2} \X {TRUE})
    \cup ({4, 20} \X {4, 8, 16} \X {TRUE})

ClusterK ==
    Cluster("K", CPU(2, 200, 400, 0, 1), 400, 80, 80000, FS(2, 4, 16, 2, 0),
            2, 1, 8, 2)

ReadsK ==
    ({1} \X {2} \X {FALSE})
    \cup ({1, 3, 8, 32} \X {4} \X {FALSE})
    \cup ({1, 2, 3, 4, 8, 16, 32} \X {8, 16} \X {FALSE})
    \cup ({1} \X {2} \X {TRUE})
    \cup ({1, 2, 3, 4, 8, 40} \X {4} \X {TRUE})
    \cup ({1, 2, 3, 4, 8, 16, 20, 40} \X {8, 16} \X {TRUE})

WritesK ==
    ({16, 20} \X {2} \X {FALSE})
    \cup ({1, 2, 3, 4, 8, 16} \X {4, 8, 16} \X {FALSE})
    \cup ({1, 8, 16} \X {2} \X {TRUE})
    \cup ({1, 4, 8} \X {4} \X {TRUE})
    \cup ({1, 2, 3, 4, 8} \X {8, 16} \X {TRUE})

ClusterL ==
    Cluster("L", CPU(4, 100, 100, 2, 0), 800, 160, 8000, FS(8, 1, 4, 1, 0),
            4, 2, 2, 1)

ReadsL ==
    ({1, 2, 3, 4, 8, 16} \X {8, 16} \X {FALSE})
    \cup ({1, 40} \X {4} \X {TRUE})
    \cup ({1, 4, 8, 16, 40} \X {8} \X {TRUE})
    \cup ({2, 3, 4, 8, 16, 40} \X {16} \X {TRUE})

WritesL ==
    ({32} \X {4} \X {FALSE})
    \cup ({1, 2, 3, 4, 8, 16, 32} \X {8} \X {FALSE})
    \cup ({1, 2, 3, 4, 8, 16} \X {16} \X {FALSE})
    \cup ({32} \X {4} \X {TRUE})
    \cup ({16} \X {8} \X {TRUE})
    \cup ({8, 16} \X {16} \X {TRUE})

Configs ==
    {ClusterA, ClusterB, ClusterC, ClusterD, ClusterE, ClusterF,
     ClusterG, ClusterH, ClusterI, ClusterJ, ClusterK, ClusterL}

GwReadCalls ==
    [A |-> ReadsA, B |-> ReadsB, C |-> ReadsC,
     D |-> ReadsD, E |-> ReadsE, F |-> ReadsF,
     G |-> ReadsG, H |-> ReadsH, I |-> ReadsI,
     J |-> ReadsJ, K |-> ReadsK, L |-> ReadsL]

GwWriteCalls ==
    [A |-> WritesA, B |-> WritesB, C |-> WritesC,
     D |-> WritesD, E |-> WritesE, F |-> WritesF,
     G |-> WritesG, H |-> WritesH, I |-> WritesI,
     J |-> WritesJ, K |-> WritesK, L |-> WritesL]

-----------------------------------------------------------------------------
(* the state machine: one cluster, and the calls a driver makes on it *)

VARIABLES
    cfg,            \* the cluster the objects were constructed as
    last,           \* the last call: operation, arguments, returned values
    svr_warnings,   \* Server.warnings of the server instance
    gw_warnings,    \* Gateway.warnings of the gateway instance
    calls           \* number of calls made so far

vars == <<cfg, last, svr_warnings, gw_warnings, calls>>

\* a warning added whether or not it is already there
warn_append(warnings, msg) == Append(warnings, msg)

\* a warning put in front of the accumulated ones
warn_in_front(warnings, msg) ==
    IF \E i \in 1 .. Len(warnings) : warnings[i] = msg
    THEN warnings ELSE <<msg>> \o warnings

\* warn(msg): "if (self.warnings.find(msg) < 0): self.warnings += msg". The
\* accumulated string is kept as the sequence of its messages; each message is
\* one whole line, so it is found in the string when it is one of them.
warn(warnings, msg) ==
    IF \E i \in 1 .. Len(warnings) : warnings[i] = msg
    THEN warnings ELSE Append(warnings, msg)

RECURSIVE warn_all(_, _)
\* the warn() calls of one operation, in order
warn_all(warnings, msgs) ==
    IF msgs = <<>> THEN warnings
    ELSE warn_all(warn(warnings, Head(msgs)), Tail(msgs))

Init ==
    /\ cfg \in Configs
    /\ last = [op |-> "none"]
    /\ svr_warnings = <<>>
    /\ gw_warnings = <<>>
    /\ calls = 0

Call(op, bsize, depth, seq, r) ==
    [op |-> op, bsize |-> bsize, depth |-> depth, seq |-> seq, r |-> r]

\* the server's NIC is asked for the queue a load builds
QueueLength ==
    /\ calls < MaxCalls
    /\ \E rho \in Rhos, max_depth \in 1 .. MaxQueue :
         last' = [Call("queue_length", 0, max_depth, FALSE,
                       queue_length(rho, max_depth))
                  EXCEPT !.bsize = rho]
    /\ calls' = calls + 1
    /\ UNCHANGED <<cfg, svr_warnings, gw_warnings>>

SrvRead ==
    /\ calls < MaxCalls
    /\ \E bsize \in Sizes, depth \in Depths, seq \in BOOLEAN :
         LET r == ServerRead(cfg.server, bsize, depth, seq)
         IN  /\ last' = Call("Server.read", bsize, depth, seq, r)
             /\ svr_warnings' = warn_all(svr_warnings, r.warns)
    /\ calls' = calls + 1
    /\ UNCHANGED <<cfg, gw_warnings>>

SrvWrite ==
    /\ calls < MaxCalls
    /\ \E bsize \in Sizes, depth \in Depths, seq \in BOOLEAN :
         LET r == ServerWrite(cfg.server, bsize, depth, seq)
         IN  /\ last' = Call("Server.write", bsize, depth, seq, r)
             /\ svr_warnings' = warn_all(svr_warnings, r.warns)
    /\ calls' = calls + 1
    /\ UNCHANGED <<cfg, gw_warnings>>

\* commit returns the name bw, which it never assigns: the call returns what
\* the units module binds to that name, or raises NameError when it binds none
SrvCommit ==
    /\ calls < MaxCalls
    /\ \E bw_in_units \in BOOLEAN :
         last' = Call("Server.commit", 0, 1, FALSE,
                      IF bw_in_units THEN ServerCommit(cfg.server)
                      ELSE [error |-> "NameError"])
    /\ calls' = calls + 1
    /\ UNCHANGED <<cfg, svr_warnings, gw_warnings>>

SrvGetattr ==
    /\ calls < MaxCalls
    /\ \E cached \in {Q(0), Frac(1, 2), Q(1)}, depth \in Depths :
         last' = [Call("Server.getattr", 0, depth, FALSE,
                       ServerGetattr(cfg.server, cached, depth))
                  EXCEPT !.bsize = cached]
    /\ calls' = calls + 1
    /\ UNCHANGED <<cfg, svr_warnings, gw_warnings>>

SrvSetattr ==
    /\ calls < MaxCalls
    /\ \E cached \in {Q(0), Frac(1, 2), Q(1)}, depth \in Depths, sync \in BOOLEAN :
         last' = [Call("Server.setattr", 0, depth, sync,
                       ServerSetattr(cfg.server, cached, depth, sync))
                  EXCEPT !.bsize = cached]
    /\ calls' = calls + 1
    /\ UNCHANGED <<cfg, svr_warnings, gw_warnings>>

DlmLockCall ==
    /\ calls < MaxCalls
    /\ last' = Call("DLM.lock", 0, 1, FALSE, DlmLock(cfg.dlm))
    /\ calls' = calls + 1
    /\ UNCHANGED <<cfg, svr_warnings, gw_warnings>>

GwRead ==
    /\ calls < MaxCalls
    /\ \E c \in GwReadCalls[cfg.name] :
         LET bsize == c[1]
             depth == c[2]
             seq == c[3]
             r == GatewayRead(cfg.gateway, bsize, depth, seq)
         IN  /\ last' = Call("Gateway.read", bsize, depth, seq, r)
             /\ gw_warnings' = warn_all(gw_warnings, r.warns)
             /\ svr_warnings' = warn_all(svr_warnings, r.svr_warns)
    /\ calls' = calls + 1
    /\ UNCHANGED cfg

GwWrite ==
    /\ calls < MaxCalls
    /\ \E c \in GwWriteCalls[cfg.name] :
         LET bsize == c[1]
             depth == c[2]
             seq == c[3]
             r == GatewayWrite(cfg.gateway, bsize, depth, seq)
         IN  /\ last' = Call("Gateway.write", bsize, depth, seq, r)
             /\ gw_warnings' = warn_all(gw_warnings, r.warns)
             /\ svr_warnings' = warn_all(svr_warnings, r.svr_warns)
    /\ calls' = calls + 1
    /\ UNCHANGED cfg

Next ==
    \/ QueueLength
    \/ SrvRead
    \/ SrvWrite
    \/ SrvCommit
    \/ SrvGetattr
    \/ SrvSetattr
    \/ DlmLockCall
    \/ GwRead
    \/ GwWrite

Spec == Init /\ [][Next]_vars

\* the clusters whose gateway is bound by its back-side network at every
\* depth explored: a change of the messages a write exchanges with the
\* servers moves every time of these clusters, and none out of range
RmwConfigs == {ClusterJ, ClusterK, ClusterL}

InitRmw ==
    /\ cfg \in RmwConfigs
    /\ last = [op |-> "none"]
    /\ svr_warnings = <<>>
    /\ gw_warnings = <<>>
    /\ calls = 0

SpecRmw == InitRmw /\ [][Next]_vars

\* the parameter sweeps of the test programs: several calls in a row on the
\* same server, lock manager and gateway instances
MaxSweep == 3

SweepConfigs == {ClusterH}

SweepSizes == {4, 16}

SweepDepths == {1, 16}

\* the Gateway calls of a sweep
SweepCalls(calls_of) ==
    {c \in calls_of[cfg.name] : c[1] \in SweepSizes /\ c[2] \in SweepDepths}

InitSweep ==
    /\ cfg \in SweepConfigs
    /\ last = [op |-> "none"]
    /\ svr_warnings = <<>>
    /\ gw_warnings = <<>>
    /\ calls = 0

\* a call of a sweep: the call and the warnings accumulated before it
SweepCall(op, bsize, depth, seq, r) ==
    [op |-> op, bsize |-> bsize, depth |-> depth, seq |-> seq, r |-> r,
     svr_before |-> svr_warnings, gw_before |-> gw_warnings]

SweepSrvRead ==
    /\ calls < MaxSweep
    /\ \E bsize \in SweepSizes, depth \in SweepDepths, seq \in BOOLEAN :
         LET r == ServerRead(cfg.server, bsize, depth, seq)
         IN  /\ last' = SweepCall("Server.read", bsize, depth, seq, r)
             /\ svr_warnings' = warn_all(svr_warnings, r.warns)
    /\ calls' = calls + 1
    /\ UNCHANGED <<cfg, gw_warnings>>

SweepSrvWrite ==
    /\ calls < MaxSweep
    /\ \E bsize \in SweepSizes, depth \in SweepDepths, seq \in BOOLEAN :
         LET r == ServerWrite(cfg.server, bsize, depth, seq)
         IN  /\ last' = SweepCall("Server.write", bsize, depth, seq, r)
             /\ svr_warnings' = warn_all(svr_warnings, r.warns)
    /\ calls' = calls + 1
    /\ UNCHANGED <<cfg, gw_warnings>>

SweepDlmLock ==
    /\ calls < MaxSweep
    /\ last' = SweepCall("DLM.lock", 0, 1, FALSE, DlmLock(cfg.dlm))
    /\ calls' = calls + 1
    /\ UNCHANGED <<cfg, svr_warnings, gw_warnings>>

SweepGwRead ==
    /\ calls < MaxSweep
    /\ \E c \in SweepCalls(GwReadCalls) :
         LET r == GatewayRead(cfg.gateway, c[1], c[2], c[3])
         IN  /\ last' = SweepCall("Gateway.read", c[1], c[2], c[3], r)
             /\ gw_warnings' = warn_all(gw_warnings, r.warns)
             /\ svr_warnings' = warn_all(svr_warnings, r.svr_warns)
    /\ calls' = calls + 1
    /\ UNCHANGED cfg

SweepGwWrite ==
    /\ calls < MaxSweep
    /\ \E c \in SweepCalls(GwWriteCalls) :
         LET r == GatewayWrite(cfg.gateway, c[1], c[2], c[3])
         IN  /\ last' = SweepCall("Gateway.write", c[1], c[2], c[3], r)
             /\ gw_warnings' = warn_all(gw_warnings, r.warns)
             /\ svr_warnings' = warn_all(svr_warnings, r.svr_warns)
    /\ calls' = calls + 1
    /\ UNCHANGED cfg

NextSweep ==
    \/ SweepSrvRead
    \/ SweepSrvWrite
    \/ SweepDlmLock
    \/ SweepGwRead
    \/ SweepGwWrite

SpecSweep == InitSweep /\ [][NextSweep]_vars

\* the calls of a repeated measurement: the input sets of a sweep at one depth
PureDepths == {16}

PureCalls(calls_of) ==
    {c \in calls_of[cfg.name] : c[1] \in SweepSizes /\ c[2] \in PureDepths}

\* a call of a repeated measurement: the call, the first call made on these
\* components and the warnings accumulated before the call
PureCall(op, bsize, depth, seq, r) ==
    LET this == [op |-> op, bsize |-> bsize, depth |-> depth, seq |-> seq,
                 r |-> r]
    IN  [op |-> op, bsize |-> bsize, depth |-> depth, seq |-> seq, r |-> r,
         first |-> IF calls = 0 THEN this ELSE last.first,
         svr_before |-> svr_warnings, gw_before |-> gw_warnings]

PureSrvRead ==
    /\ calls < MaxSweep
    /\ \E bsize \in SweepSizes, depth \in PureDepths, seq \in BOOLEAN :
         LET r == ServerRead(cfg.server, bsize, depth, seq)
         IN  /\ last' = PureCall("Server.read", bsize, depth, seq, r)
             /\ svr_warnings' = warn_all(svr_warnings, r.warns)
    /\ calls' = calls + 1
    /\ UNCHANGED <<cfg, gw_warnings>>

PureSrvWrite ==
    /\ calls < MaxSweep
    /\ \E bsize \in SweepSizes, depth \in PureDepths, seq \in BOOLEAN :
         LET r == ServerWrite(cfg.server, bsize, depth, seq)
         IN  /\ last' = PureCall("Server.write", bsize, depth, seq, r)
             /\ svr_warnings' = warn_all(svr_warnings, r.warns)
    /\ calls' = calls + 1
    /\ UNCHANGED <<cfg, gw_warnings>>

PureSrvGetattr ==
    /\ calls < MaxSweep
    /\ \E cached \in {Q(0), Frac(1, 2)}, depth \in PureDepths :
         last' = PureCall("Server.getattr", cached, depth, FALSE,
                          ServerGetattr(cfg.server, cached, depth))
    /\ calls' = calls + 1
    /\ UNCHANGED <<cfg, svr_warnings, gw_warnings>>

PureSrvSetattr ==
    /\ calls < MaxSweep
    /\ \E cached \in {Frac(1, 2)}, depth \in PureDepths, sync \in BOOLEAN :
         last' = PureCall("Server.setattr", cached, depth, sync,
                          ServerSetattr(cfg.server, cached, depth, sync))
    /\ calls' = calls + 1
    /\ UNCHANGED <<cfg, svr_warnings, gw_warnings>>

\* a lock manager with session state: each call made before adds lock_us
PureDlmLock_contended ==
    /\ calls < MaxSweep
    /\ last' = PureCall("DLM.lock", 0, 1, FALSE,
                        [DlmLock(cfg.dlm) EXCEPT
                           !.latency = QAdd(@, Q(calls * lock_us))])
    /\ calls' = calls + 1
    /\ UNCHANGED <<cfg, svr_warnings, gw_warnings>>

PureDlmLock ==
    /\ calls < MaxSweep
    /\ last' = PureCall("DLM.lock", 0, 1, FALSE, DlmLock(cfg.dlm))
    /\ calls' = calls + 1
    /\ UNCHANGED <<cfg, svr_warnings, gw_warnings>>

PureGwRead ==
    /\ calls < MaxSweep
    /\ \E c \in PureCalls(GwReadCalls) :
         LET r == GatewayRead(cfg.gateway, c[1], c[2], c[3])
         IN  /\ last' = PureCall("Gateway.read", c[1], c[2], c[3], r)
             /\ gw_warnings' = warn_all(gw_warnings, r.warns)
             /\ svr_warnings' = warn_all(svr_warnings, r.svr_warns)
    /\ calls' = calls + 1
    /\ UNCHANGED cfg

PureGwWrite ==
    /\ calls < MaxSweep
    /\ \E c \in PureCalls(GwWriteCalls) :
         LET r == GatewayWrite(cfg.gateway, c[1], c[2], c[3])
         IN  /\ last' = PureCall("Gateway.write", c[1], c[2], c[3], r)
             /\ gw_warnings' = warn_all(gw_warnings, r.warns)
             /\ svr_warnings' = warn_all(svr_warnings, r.svr_warns)
    /\ calls' = calls + 1
    /\ UNCHANGED cfg

NextPure ==
    \/ PureSrvRead
    \/ PureSrvWrite
    \/ PureSrvGetattr
    \/ PureSrvSetattr
    \/ PureDlmLock
    \/ PureGwRead
    \/ PureGwWrite

SpecPure == InitSweep /\ [][NextPure]_vars

\* the drives explored: a smart disk, a dumb disk and two SSDs
DiskConfigs ==
    { [name |-> "disk", disk |-> Disk(120, 96000, 960, 2)],
      [name |-> "slow disk", disk |-> Disk(60, 9600, 480, 2)],
      [name |-> "dumb disk", disk |-> DumbDisk(120, 96000, 960, 2)],
      [name |-> "ssd", disk |-> SSD(9600, 1600, 20, 4)],
      [name |-> "one-stream ssd", disk |-> SSD(9600, 1600, 20, 1)] }

\* request sizes around the track sizes 240 and 480, files of a few to a few
\* hundred cylinders, and depths around nr_requests of every drive
DiskSizes == {1, 4, 16, 64, 240, 241, 480, 481, 960}

FileSizes == {960, 9600, 48000, 288000}

DiskDepths == {1, 2, 4, 5, 8, 9, 16}

InitDisk ==
    /\ cfg \in DiskConfigs
    /\ last = [op |-> "none"]
    /\ svr_warnings = <<>>
    /\ gw_warnings = <<>>
    /\ calls = 0

\* one avgTime call: the arguments and the time returned
DiskCall(op, bsize, file_size, read, seq, depth, t) ==
    [op |-> op, bsize |-> bsize, file_size |-> file_size, read |-> read,
     seq |-> seq, depth |-> depth, r |-> [latency |-> t]]

DiskAvgTime ==
    /\ calls < MaxCalls
    /\ cfg.disk.kind \in {"Disk", "DumbDisk"}
    /\ \E bsize \in DiskSizes, file_size \in FileSizes, read \in BOOLEAN,
          seq \in BOOLEAN, depth \in DiskDepths :
         last' = DiskCall("Disk.avgTime", bsize, file_size, read, seq, depth,
                          avgTime(cfg.disk, bsize, file_size, read, seq, depth))
    /\ calls' = calls + 1
    /\ UNCHANGED <<cfg, svr_warnings, gw_warnings>>

SsdAvgTime ==
    /\ calls < MaxCalls
    /\ cfg.disk.kind = "SSD"
    /\ \E bsize \in DiskSizes, file_size \in FileSizes, read \in BOOLEAN,
          seq \in BOOLEAN, depth \in DiskDepths :
         last' = DiskCall("SSD.avgTime", bsize, file_size, read, seq, depth,
                          ssd_avgTime(cfg.disk, bsize, file_size, read, seq, depth))
    /\ calls' = calls + 1
    /\ UNCHANGED <<cfg, svr_warnings, gw_warnings>>

\* seek distances from none to past the last cylinder of every drive
MaxCyls == 101

\* transfers of less than a cylinder (960), of whole cylinders and in between
XferSizes == DiskSizes \cup {961, 1440, 1920, 2000, 2880}

DiskSeekTime ==
    /\ calls < MaxCalls
    /\ \E cyls \in 0 .. MaxCyls, read \in BOOLEAN :
         last' = [op |-> "Disk.seekTime", cyls |-> cyls, read |-> read,
                  r |-> [latency |-> seekTime(cfg.disk, cyls, read)]]
    /\ calls' = calls + 1
    /\ UNCHANGED <<cfg, svr_warnings, gw_warnings>>

DiskXferTime ==
    /\ calls < MaxCalls
    /\ \E bytes \in XferSizes, read \in BOOLEAN :
         last' = [op |-> "Disk.xferTime", bsize |-> bytes, read |-> read,
                  r |-> [latency |-> xferTime(cfg.disk, bytes, read)]]
    /\ calls' = calls + 1
    /\ UNCHANGED <<cfg, svr_warnings, gw_warnings>>

NextDisk ==
    \/ DiskAvgTime
    \/ SsdAvgTime
    \/ DiskSeekTime
    \/ DiskXferTime

SpecDisk == InitDisk /\ [][NextDisk]_vars

\* the clusters whose gateway calls stay in range when a request that spans
\* stripes is charged a single lock
SpanConfigs == {ClusterB, ClusterD}

InitSpan ==
    /\ cfg \in SpanConfigs
    /\ last = [op |-> "none"]
    /\ svr_warnings = <<>>
    /\ gw_warnings = <<>>
    /\ calls = 0

SpecSpan == InitSpan /\ [][Next]_vars

\* the calls a client makes on the server alone
NextSrv ==
    \/ SrvRead
    \/ SrvWrite
    \/ SrvCommit
    \/ SrvGetattr
    \/ SrvSetattr

SpecSrv == Init /\ [][NextSrv]_vars

\* the processors explored: a bus slower than, as fast as and faster than the
\* memory; the last has the 15 : 8 ratio of the default CPU("name")
CpuConfigs ==
    { [name |-> "slow bus", cpu |-> CPU(1, 100, 400, 1, 2)],
      [name |-> "slower bus", cpu |-> CPU(2, 200, 1600, 0, 1)],
      [name |-> "balanced", cpu |-> CPU(1, 400, 400, 1, 1)],
      [name |-> "slow memory", cpu |-> CPU(1, 800, 200, 1, 1)],
      [name |-> "slower memory", cpu |-> CPU(4, 1600, 100, 0, 0)],
      [name |-> "default", cpu |-> CPU(1, 2400, 1280, 1, 3)] }

InitCpu ==
    /\ cfg \in CpuConfigs
    /\ last = [op |-> "none"]
    /\ svr_warnings = <<>>
    /\ gw_warnings = <<>>
    /\ calls = 0

CpuProcess ==
    /\ calls < MaxCalls
    /\ \E bytes \in Sizes :
         last' = Call("CPU.process", bytes, 1, FALSE,
                      [latency |-> process(cfg.cpu, Q(bytes))])
    /\ calls' = calls + 1
    /\ UNCHANGED <<cfg, svr_warnings, gw_warnings>>

CpuMemRead ==
    /\ calls < MaxCalls
    /\ \E bytes \in Sizes :
         last' = Call("CPU.mem_read", bytes, 1, FALSE,
                      [latency |-> mem_read(cfg.cpu, Q(bytes))])
    /\ calls' = calls + 1
    /\ UNCHANGED <<cfg, svr_warnings, gw_warnings>>

CpuMemWrite ==
    /\ calls < MaxCalls
    /\ \E bytes \in Sizes :
         last' = Call("CPU.mem_write", bytes, 1, FALSE,
                      [latency |-> mem_write(cfg.cpu, Q(bytes))])
    /\ calls' = calls + 1
    /\ UNCHANGED <<cfg, svr_warnings, gw_warnings>>

NextCpu ==
    \/ CpuProcess
    \/ CpuMemRead
    \/ CpuMemWrite

SpecCpu == InitCpu /\ [][NextCpu]_vars

\* the clusters whose gateway calls stay in range when the lock or the
\* read-ahead costs of a request change
GwCostConfigs == {ClusterB, ClusterC, ClusterE, ClusterH, ClusterJ, ClusterK}

InitGwCost ==
    /\ cfg \in GwCostConfigs
    /\ last = [op |-> "none"]
    /\ svr_warnings = <<>>
    /\ gw_warnings = <<>>
    /\ calls = 0

SpecGwCost == InitGwCost /\ [][Next]_vars

-----------------------------------------------------------------------------
(* properties of the calls *)

\* the last call was a Server read or write
IsSrvRW == last.op \in {"Server.read", "Server.write"}

\* the last call was a Gateway read or write
IsGwRW == last.op \in {"Gateway.read", "Gateway.write"}

\* the smallest of the four resource ceilings of a Server call
SrvCeiling(r) == QMin(QMin(QMin(r.bw_n, r.bw_cpu), r.bw_fs), r.bw_hba)

\* C1: the bandwidth a Server or Gateway read or write returns is at most
\* every resource ceiling computed in that call (Server: network, CPU, file
\* system, HBA; Gateway: lock manager, servers, front and back network, CPU)
C1_BandwidthWithinCeilings ==
    /\ IsSrvRW =>
         \A c \in {last.r.bw_n, last.r.bw_cpu, last.r.bw_fs, last.r.bw_hba} :
            QLe(last.r.bandwidth, c)
    /\ IsGwRW =>
         \A c \in {last.r.bw_dlm, last.r.bw_svr, last.r.bw_nf, last.r.bw_nb,
                   last.r.bw_cpu} :
            QLe(last.r.bandwidth, c)

\* a Gateway write held to its back-side network, below what its latency allows
C1_Witness ==
    /\ last.op = "Gateway.write"
    /\ last.r.bandwidth = last.r.bw_nb
    /\ QLt(last.r.bandwidth, last.r.bw_base)

\* C2 as stated: the bandwidth a Server read or write returns is exactly the
\* minimum of the four ceilings network, CPU, file system and HBA
C2_BandwidthIsMinOfFour ==
    IsSrvRW => last.r.bandwidth = SrvCeiling(last.r)

\* C2 amended: the bandwidth a Server read or write returns is exactly the
\* minimum of the four ceilings and of the rate its latency allows,
\* depth * bsize * SECOND / latency before queueing
C2_BandwidthIsMinWithBase ==
    IsSrvRW =>
        last.r.bandwidth =
            QMin(QDiv(Q(last.depth * last.bsize * SECOND), last.r.base),
                 SrvCeiling(last.r))

\* a Server read no resource holds back: it runs at the rate of its latency
C2_Witness ==
    /\ last.op = "Server.read"
    /\ QLt(last.r.bandwidth, SrvCeiling(last.r))
    /\ last.r.bandwidth =
         QDiv(Q(last.depth * last.bsize * SECOND), last.r.base)

\* C3: every load a Server read or write returns is the bandwidth over that
\* resource's ceiling of the same call, so that the resource whose ceiling
\* is the bandwidth reports 1; for writes too, load['net'] is bandwidth / bw_n
C3_LoadsAreBandwidthOverCeiling ==
    IsSrvRW =>
        /\ last.r.load.net = QDiv(last.r.bandwidth, last.r.bw_n)
        /\ last.r.load.cpu = QDiv(last.r.bandwidth, last.r.bw_cpu)
        /\ last.r.load.fs = QDiv(last.r.bandwidth, last.r.bw_fs)
        /\ last.r.load.hba = QDiv(last.r.bandwidth, last.r.bw_hba)
        /\ last.r.bandwidth = last.r.bw_n => last.r.load.net = Q(1)
        /\ last.r.bandwidth = last.r.bw_cpu => last.r.load.cpu = Q(1)
        /\ last.r.bandwidth = last.r.bw_fs => last.r.load.fs = Q(1)
        /\ last.r.bandwidth = last.r.bw_hba => last.r.load.hba = Q(1)

\* the loads of a Server or Gateway read or write
Loads(r) ==
    IF IsSrvRW
    THEN {r.load.cpu, r.load.net, r.load.fs, r.load.hba}
    ELSE {r.load.front, r.load.back, r.load.cpu, r.load.server, r.load.dlm}

C5_QueueLengthCapped ==
    last.op = "queue_length" =>
        LET rho == last.bsize
            max_depth == Q(last.depth)
        IN  /\ QLe(last.r, max_depth)
            /\ QLe(Q(1), rho) => last.r = max_depth
            /\ QLt(rho, Q(1)) =>
                 last.r = QMin(QDiv(rho, QSub(Q(1), rho)), max_depth)

\* a load above 1: the queue is as long as it can be
C5_Witness ==
    /\ last.op = "queue_length"
    /\ last.bsize = Frac(3, 2)
    /\ last.depth = 3
    /\ last.r = Q(3)

\* C6 as stated: for a load in [0, 1) the queue length is in [0, max_depth),
\* and it is strictly increasing in the load over [0, 1)
C6_QueueLengthStrict ==
    (last.op = "queue_length" /\ QLt(last.bsize, Q(1))) =>
        /\ QLe(Q(0), last.r)
        /\ QLt(last.r, Q(last.depth))
        /\ \A rho2 \in Rhos :
             (QLt(last.bsize, rho2) /\ QLt(rho2, Q(1))) =>
                 QLt(last.r, queue_length(rho2, last.depth))

\* C6 amended: for a load in [0, 1) the queue length is in [0, max_depth] and
\* does not decrease as the load grows; while rho / (1 - rho) is below
\* max_depth, that is for rho < max_depth / (max_depth + 1), it is below
\* max_depth and less than the queue length of every greater load below 1
C6_QueueLengthMonotone ==
    (last.op = "queue_length" /\ QLt(last.bsize, Q(1))) =>
        /\ QLe(Q(0), last.r)
        /\ QLe(last.r, Q(last.depth))
        /\ QLt(last.bsize, Frac(last.depth, last.depth + 1)) =>
             QLt(last.r, Q(last.depth))
        /\ \A rho2 \in Rhos :
             (QLt(last.bsize, rho2) /\ QLt(rho2, Q(1))) =>
                 /\ QLe(last.r, queue_length(rho2, last.depth))
                 /\ QLt(last.bsize, Frac(last.depth, last.depth + 1)) =>
                      QLt(last.r, queue_length(rho2, last.depth))

\* a load below 1 whose queue is already as long as it can be
C6_Witness ==
    /\ last.op = "queue_length"
    /\ last.bsize = Frac(7, 8)
    /\ last.depth = 4
    /\ last.r = Q(4)

\* the queueing delays of a Server read or write, from what it returned
SrvNicDelay == QMul(last.r.t_net, queue_length(last.r.load.net, last.depth))

SrvCpuDelay == QMul(last.r.t_cpu, cpu_queue_length(last.r.load.cpu, last.depth))

\* the time the HBA takes to move the request, times the queue of its load
SrvHbaDelay ==
    QMul(read_time(cfg.server.hba, Q(last.bsize)),
         queue_length(last.r.load.hba, last.depth))

\* C7 as stated: the latency of a Server read or write is the base latency
\* plus three queueing delays, of the NIC, the CPU and the HBA, each the
\* resource's service time times queue_length(its load, depth); that is, what
\* the latency adds to the base latency, the NIC delay and the CPU delay is
\* the HBA delay
C7_LatencyThreeDelays ==
    IsSrvRW =>
        QSub(QSub(last.r.latency, last.r.base), QAdd(SrvNicDelay, SrvCpuDelay))
            = SrvHbaDelay

\* C7 amended: the latency of a Server read or write is the base latency
\* plus two queueing delays, of the NIC and of the CPU, each the resource's
\* service time times queue_length(its load, depth); the HBA adds none
C7_LatencyTwoDelays ==
    IsSrvRW =>
        last.r.latency = QAdd(last.r.base, QAdd(SrvNicDelay, SrvCpuDelay))

\* a Server write delayed by its NIC and by its CPU, with a loaded HBA
C7_Witness ==
    /\ last.op = "Server.write"
    /\ QLt(Q(0), SrvNicDelay)
    /\ QLt(Q(0), SrvCpuDelay)
    /\ QLt(Q(0), last.r.load.hba)
    /\ QLt(last.r.base, last.r.latency)

\* C8: the CPU cost t_cpu of a Gateway read or write, which sets bw_cpu, the
\* latency and load['cpu'], sums the cost of every message handled: receiving
\* the request, the lock messages weighted by the lock probability and the
\* per-shard back-side messages, with the data processing and the response
C8_CpuCostSumsAllMessages ==
    /\ last.op = "Gateway.read" =>
         last.r.t_cpu =
             QAdd(QAdd(last.r.t_cpu_msgs, last.r.t_cpu_work), last.r.t_cpu_rsp)
    /\ last.op = "Gateway.write" =>
         last.r.t_cpu =
             QAdd(QAdd(QAdd(QAdd(last.r.t_cpu_msgs, last.r.t_cpu_work),
                            last.r.t_cpu_cksum),
                       last.r.t_cpu_back),
                  last.r.t_cpu_rsp)

\* the last call was a random Gateway write of no more than one stripe
IsRmw ==
    /\ last.op = "Gateway.write"
    /\ ~last.seq
    /\ last.bsize <= cfg.gateway.width * cfg.gateway.n

\* the time Gateway.write charges for one message of that size
MsgTime(bytes) ==
    QAdd(Q(cfg.gateway.front.min_read_latency),
         read_time(cfg.gateway.front, bytes))

\* C9: a random Gateway write of no more than one stripe counts n shard
\* reads, 1 + m shard writes, 1 + m commits and n - 1 setattrs into its
\* back-side times and CPU cost, and n - 1 extra checksums of write_mult *
\* process(bsize) each; with n = 5 and m = 2 that is 3 shard writes
C9_RmwCounts ==
    IsRmw =>
        LET n == cfg.gateway.n
            m == cfg.gateway.m
            back == cfg.gateway.back
            small == Q(min_msg)
            large == Q(min_msg + last.bsize)
            r == last.r
        IN  /\ r.plan.reads = n
            /\ r.plan.writes = 1 + m
            /\ r.plan.commits = 1 + m
            /\ r.plan.setattrs = n - 1
            /\ (n = 5 /\ m = 2) => r.plan.writes = 3
            /\ r.t_cpu_cksum =
                 QMul(Q(n - 1),
                      QMul(Q(write_mult), process(cfg.gateway.cpu, Q(last.bsize))))
            /\ r.t_cpu =
                 QAdd(QAdd(QAdd(r.t_cpu_work, r.t_cpu_cksum), r.t_cpu_back),
                      r.t_cpu_rsp)
            /\ r.t_back_w =
                 QAdd(QMul(r.p_lock, MsgTime(small)),
                      QAdd(QMul(Q(n + (1 + m) + (n - 1)), MsgTime(small)),
                           QMul(Q(1 + m), MsgTime(large))))
            /\ r.t_back_r =
                 QAdd(QMul(r.p_lock, MsgTime(small)),
                      QMul(Q(n + (1 + m)), MsgTime(large)))
            /\ r.t_cpu_back =
                 QAdd(QAdd(QMul(Q(n + (1 + m) + (n - 1)), write_cpu(back, small)),
                           QMul(Q(n), read_cpu(back, large))),
                      QAdd(QMul(Q(1 + m), write_cpu(back, large)),
                           QMul(Q(1 + m), read_cpu(back, small))))

\* a random write of less than a strip on a 5 + 2 code: 3 shard writes
C9_Witness ==
    /\ IsRmw
    /\ cfg.gateway.n = 5
    /\ cfg.gateway.m = 2
    /\ last.bsize < cfg.gateway.width
    /\ last.r.plan.writes = 3
    /\ last.r.plan.reads = 5

\* C10: for a block size below one strip width, a random Gateway write has a
\* strictly greater latency than the sequential Gateway write of the same
\* block size and depth (over the pairs of calls both explored)
C10_RandomWriteCostsMore ==
    (/\ last.op = "Gateway.write"
     /\ ~last.seq
     /\ last.bsize < cfg.gateway.width
     /\ <<last.bsize, last.depth, TRUE>> \in GwWriteCalls[cfg.name]) =>
        QLt(GatewayWrite(cfg.gateway, last.bsize, last.depth, TRUE).latency,
            last.r.latency)

\* the latency of one DLM.lock() call of the cluster's lock manager
LockLatency == DlmLock(cfg.gateway.dlm).latency

\* C11: the lock cost t_lock of a Gateway read or write is one DLM.lock()
\* latency when the access is random, and bsize / (strip width * n) of that
\* latency when it is sequential
C11_LockCost ==
    IsGwRW =>
        last.r.t_lock =
            IF last.seq
            THEN QDiv(QMul(Q(last.bsize), LockLatency),
                      Q(cfg.gateway.width * cfg.gateway.n))
            ELSE LockLatency

\* a sequential Gateway write of less than a stripe: a fraction of a lock
C11_Witness ==
    /\ last.op = "Gateway.write"
    /\ last.seq
    /\ last.bsize < cfg.gateway.width * cfg.gateway.n
    /\ QLt(last.r.t_lock, LockLatency)

\* the last call was a sequential Gateway read of at most one stripe
IsSmallSeqRead ==
    /\ last.op = "Gateway.read"
    /\ last.seq
    /\ last.bsize <= cfg.gateway.width * cfg.gateway.n

\* the costs Gateway.read computes up to its response, for a gateway gw
GwReadCosts(gw, bsize, depth, seq) ==
    gw_read_cpu(gw_read_servers(gw_read_io(gw_read_locks(
        gw_read_request(gw, bsize, depth, seq)))))

\* the costs of the last read on the same gateway with read_ahead disabled
NoReadAhead ==
    GwReadCosts([cfg.gateway EXCEPT !.read_ahead = FALSE],
                last.bsize, last.depth, last.seq)

\* C12: a sequential Gateway read of at most one stripe with read_ahead
\* enabled passes twice the depth to Server.read and charges half of that
\* call's amortised latency, while t_front_w, t_back_w, t_back_r and t_cpu are
\* those of the same read with read_ahead disabled
C12_ReadAheadFrame ==
    IsSmallSeqRead =>
        /\ cfg.gateway.read_ahead
        /\ last.r.svr_depth = 2 * NoReadAhead.d
        /\ last.r.t_svr =
             QDiv(ServerRead(cfg.gateway.server, cfg.gateway.width,
                             last.r.svr_depth, TRUE).latency,
                  QMul(Q(2), NoReadAhead.req_per_read))
        /\ last.r.t_front_w = NoReadAhead.t_front_w
        /\ last.r.t_back_w = NoReadAhead.t_back_w
        /\ last.r.t_back_r = NoReadAhead.t_back_r
        /\ last.r.t_cpu = NoReadAhead.t_cpu

\* a read that serves several requests from one stripe and prefetches, so
\* that the depth it passes to the servers is twice what it would be
C12_Witness ==
    /\ IsSmallSeqRead
    /\ last.bsize < cfg.gateway.width * cfg.gateway.n
    /\ last.depth > 1
    /\ last.r.prefetch = 2
    /\ last.r.svr_depth = 2 * NoReadAhead.d
    /\ NoReadAhead.d > 1

\* the drive's time for the last avgTime call with another size or depth
DiskTime(bsize, depth) ==
    IF cfg.disk.kind = "SSD"
    THEN ssd_avgTime(cfg.disk, bsize, last.file_size, last.read, last.seq, depth)
    ELSE avgTime(cfg.disk, bsize, last.file_size, last.read, last.seq, depth)

\* the last call was an avgTime of a drive
IsDiskCall == last.op \in {"Disk.avgTime", "SSD.avgTime"}

\* C14: a drive never uses a queue depth above its nr_requests: an avgTime
\* call with depth >= nr_requests returns what the same call returns with
\* depth = nr_requests, on a Disk, a DumbDisk (nr_requests = 1) and an SSD
\* (nr_requests = streams)
C14_DepthClamp ==
    (IsDiskCall /\ last.depth >= cfg.disk.nr_requests) =>
        last.r.latency = DiskTime(last.bsize, cfg.disk.nr_requests)

\* a random read asked deeper than the disk queues, which a shallower queue
\* would serve more slowly: the clamp is what the call ran at
C14_Witness ==
    /\ last.op = "Disk.avgTime"
    /\ cfg.disk.kind = "Disk"
    /\ ~last.seq
    /\ last.depth > cfg.disk.nr_requests
    /\ QLt(last.r.latency, DiskTime(last.bsize, 1))

\* the latency of the last Server or Gateway call had it been asked for bsize
SameCallLatency(bsize) ==
    CASE last.op = "Server.read" ->
           ServerRead(cfg.server, bsize, last.depth, last.seq).latency
      [] last.op = "Server.write" ->
           ServerWrite(cfg.server, bsize, last.depth, last.seq).latency
      [] last.op = "Gateway.read" ->
           GatewayRead(cfg.gateway, bsize, last.depth, last.seq).latency
      [] last.op = "Gateway.write" ->
           GatewayWrite(cfg.gateway, bsize, last.depth, last.seq).latency

\* the sizes the last call can be compared with: the same operation, depth
\* and access pattern, and no fewer bytes
LargerSizes ==
    CASE IsDiskCall -> {b \in DiskSizes : b >= last.bsize}
      [] IsSrvRW -> {b \in Sizes : b >= last.bsize}
      [] last.op = "Gateway.read" ->
           {c[1] : c \in {x \in GwReadCalls[cfg.name] :
                            /\ x[1] >= last.bsize
                            /\ x[2] = last.depth
                            /\ x[3] = last.seq}}
      [] last.op = "Gateway.write" ->
           {c[1] : c \in {x \in GwWriteCalls[cfg.name] :
                            /\ x[1] >= last.bsize
                            /\ x[2] = last.depth
                            /\ x[3] = last.seq}}
      [] OTHER -> {}

\* C13: for a fixed depth and access pattern the latency of Disk.avgTime,
\* Server.read, Server.write, Gateway.read and Gateway.write is non-decreasing
\* in bsize: no larger request of the same kind is faster than the last one
C13_LatencyMonotone ==
    \A b \in LargerSizes :
        QLe(last.r.latency,
            IF IsDiskCall THEN DiskTime(b, last.depth) ELSE SameCallLatency(b))

\* the messages the last call passed to Server.warn and to Gateway.warn
SrvMsgs ==
    IF IsSrvRW THEN last.r.warns
    ELSE IF IsGwRW THEN last.r.svr_warns
    ELSE <<>>

GwMsgs == IF IsGwRW THEN last.r.warns ELSE <<>>

\* no message occurs twice in the warnings w
NoRepeat(w) == \A i, j \in 1 .. Len(w) : w[i] = w[j] => i = j

\* every message of msgs is already in the warnings w
AllIn(msgs, w) ==
    \A i \in 1 .. Len(msgs) : \E j \in 1 .. Len(w) : w[j] = msgs[i]

\* C15: after any sequence of calls no warning message occurs more than once
\* in the warnings of the server or of the gateway, and a call all of whose
\* messages were already there leaves the warnings as they were
C15_WarningsDeduplicated ==
    /\ NoRepeat(svr_warnings)
    /\ NoRepeat(gw_warnings)
    /\ last.op # "none" =>
         /\ AllIn(SrvMsgs, last.svr_before) => svr_warnings = last.svr_before
         /\ AllIn(GwMsgs, last.gw_before) => gw_warnings = last.gw_before

\* a later call of a sweep that produced server warnings again, every one of
\* them recorded by an earlier call
C15_Witness ==
    /\ calls >= 2
    /\ SrvMsgs # <<>>
    /\ AllIn(SrvMsgs, last.svr_before)
    /\ svr_warnings = last.svr_before

\* w is a prefix of v
IsPrefix(w, v) == Len(w) <= Len(v) /\ SubSeq(v, 1, Len(w)) = w

\* C16: the warnings of a component only grow: the warnings before a call are
\* a prefix of the warnings after it, and the call that recorded a warning
\* returned its result
C16_WarningsOnlyGrow ==
    [][/\ IsPrefix(svr_warnings, svr_warnings')
       /\ IsPrefix(gw_warnings, gw_warnings')
       /\ last'.op # "none"
       /\ last'.r.latency \in Seq(Int)]_vars

\* a call that added a warning behind the ones an earlier call had recorded
C16_Witness ==
    /\ calls >= 2
    /\ last.svr_before # <<>>
    /\ Len(svr_warnings) > Len(last.svr_before)
    /\ last.gw_before # <<>>
    /\ Len(gw_warnings) > Len(last.gw_before)

\* the advisory level of the spec and of the comment on WARN_LOAD: "warn if
\* load goes above this level"
WARN_LOAD == Frac(8, 10)

\* the warnings w hold a message of one of the kinds
Warned(w, kinds) == \E i \in 1 .. Len(w) : w[i][1] \in kinds

\* C17: whenever a Server or Gateway read or write computes a load above 0.8
\* for a resource, a warning naming that resource is in the component's
\* warnings after the call (stated for the resources the code has messages
\* for: the server's NIC, CPUs and HBA, the gateway's front, back and CPUs)
C17_LoadAboveLevelWarned ==
    /\ IsSrvRW =>
         /\ QLt(WARN_LOAD, last.r.load.net) =>
              Warned(svr_warnings, {"Server NIC saturated", "Server NIC load"})
         /\ QLt(WARN_LOAD, last.r.load.cpu) =>
              Warned(svr_warnings, {"Server CPUs saturated", "Server CPU load"})
         /\ QLt(WARN_LOAD, last.r.load.hba) =>
              Warned(svr_warnings, {"Server HBA caps throughput"})
    /\ IsGwRW =>
         /\ QLt(WARN_LOAD, last.r.load.front) =>
              Warned(gw_warnings, {"Gateway front saturated", "Gateway front load"})
         /\ QLt(WARN_LOAD, last.r.load.back) =>
              Warned(gw_warnings, {"Gateway back saturated", "Gateway back load"})
         /\ QLt(WARN_LOAD, last.r.load.cpu) =>
              Warned(gw_warnings, {"Gateway CPUs saturated", "Gateway CPU load",
                                   "Gateway CPU"})

\* C19: every call completes and returns its numeric result: Server.commit()
\* returns a latency, a bandwidth it computed and a load
C19_CommitReturnsTriple ==
    last.op = "Server.commit" =>
        /\ DOMAIN last.r = {"latency", "bandwidth", "load", "warns"}
        /\ last.r.bandwidth # "units.bw"

\* C20 as stated: DLM.lock() returns a latency of at least one minimum-message
\* round trip on the NIC, the request received and the response sent, plus
\* lock_us, and a bandwidth of SECOND / latency
C20_LockCoversRoundTrip ==
    last.op = "DLM.lock" =>
        /\ QLe(QAdd(QAdd(last.r.t_net_r, last.r.t_net_w), Q(lock_us)),
               last.r.latency)
        /\ last.r.bandwidth = QDiv(Q(SECOND), last.r.latency)

\* the time the lock manager's NIC takes to send the min_msg response
LockResponseTime ==
    QAdd(Q(cfg.dlm.nic.min_write_latency), write_time(cfg.dlm.nic, Q(min_msg)))

\* the CPU cost of receiving the request and of sending the response
LockMessageCpu ==
    QAdd(read_cpu(cfg.dlm.nic, Q(min_msg)), write_cpu(cfg.dlm.nic, Q(min_msg)))

\* C20 amended: DLM.lock() returns a latency of at least the time of sending
\* the min_msg response on the NIC plus lock_us: it is that time, lock_us and
\* the CPU cost of the two messages, without the time of receiving the
\* request; and it returns a bandwidth of SECOND / latency
C20_LockCoversResponse ==
    last.op = "DLM.lock" =>
        /\ QLe(QAdd(LockResponseTime, Q(lock_us)), last.r.latency)
        /\ last.r.latency =
             QAdd(QAdd(LockMessageCpu, Q(lock_us)), LockResponseTime)
        /\ last.r.bandwidth = QDiv(Q(SECOND), last.r.latency)

\* a lock that takes less than the round trip of its two messages and lock_us
C20_Witness ==
    /\ last.op = "DLM.lock"
    /\ QLt(last.r.latency,
           QAdd(QAdd(last.r.t_net_r, last.r.t_net_w), Q(lock_us)))
    /\ QLt(Q(0), last.r.t_net_r)

\* the call just made is the first call made again: the same operation with
\* the same parameters
RepeatsFirst(call) ==
    /\ call.op = call.first.op
    /\ call.bsize = call.first.bsize
    /\ call.depth = call.first.depth
    /\ call.seq = call.first.seq

LimitedTime(bytes) ==
    QDiv(QMul(Q(bytes), Q(SECOND)), Q(Min(cfg.cpu.bus_bw, cfg.cpu.mem_bw)))

\* C21 as stated: process(bytes), mem_read(bytes) and mem_write(bytes) each
\* return bytes * SECOND / min(bus_bw, mem_bw), so the three are equal for
\* every number of bytes and every CPU
C21_SameLimitingRate ==
    last.op \in {"CPU.process", "CPU.mem_read", "CPU.mem_write"} =>
        /\ last.r.latency = LimitedTime(last.bsize)
        /\ process(cfg.cpu, Q(last.bsize)) = mem_read(cfg.cpu, Q(last.bsize))
        /\ mem_read(cfg.cpu, Q(last.bsize)) = mem_write(cfg.cpu, Q(last.bsize))

\* the wire time of the response of a Server write
WriteResponseTime ==
    QAdd(Q(cfg.server.nic.min_write_latency),
         write_time(cfg.server.nic, Q(min_msg)))

\* the synchronous CPU cost of a Server write: dispatching the request,
\* handling its bytes and sending the response
WriteSyncCpu ==
    QAdd(QAdd(read_cpu(cfg.server.nic, Q(min_msg + last.bsize)),
              write_cpu(cfg.server.nic, Q(min_msg))),
         QAdd(QMul(w_cpu_x, process(cfg.server.cpu, Q(last.bsize))),
              QMul(w_mem_x, mem_write(cfg.server.cpu, Q(last.bsize)))))

\* C22: the base latency of a Server write is the response wire time plus the
\* synchronous CPU cost t_sync; the deferred cost t_async and the create and
\* flush time of the file system are no terms of it: they count in the CPU
\* cost per operation and in the bw_fs ceiling only
C22_WriteBaseLatency ==
    last.op = "Server.write" =>
        /\ last.r.t_sync = WriteSyncCpu
        /\ last.r.base = QAdd(WriteResponseTime, WriteSyncCpu)
        /\ QLe(QAdd(last.r.t_sync, last.r.t_async), last.r.t_cpu)
        /\ last.r.bw_cpu =
             QDiv(QMul(avail_cores(cfg.server.num_cpus, cfg.server.cpu),
                       Q(SECOND * last.bsize)), last.r.t_cpu)
        /\ last.r.bw_fs =
             QDiv(Q(SECOND * last.bsize * cfg.server.num_disks), last.r.t_disk)
        /\ last.r.latency =
             QAdd(last.r.base, QAdd(last.r.nic_delay, last.r.cpu_delay))

\* a Server write with a deferred cost and a file-system time
C22_Witness ==
    /\ last.op = "Server.write"
    /\ QLt(Q(0), last.r.t_async)
    /\ QLt(Q(0), last.r.t_disk)
    /\ QLt(last.r.t_sync, last.r.t_cpu)

\* the wire time of one message of that many bytes sent on a NIC
SendTime(nic, bytes) ==
    QAdd(Q(nic.min_write_latency), write_time(nic, Q(bytes)))

\* the wire time t_back_w of the messages a Gateway write sends to the lock
\* manager and to the servers, were they sent on that NIC
BackSendTime(nic) ==
    QAdd(QMul(QAdd(last.r.p_lock,
                   Q(last.r.plan.reads + last.r.plan.commits
                     + last.r.plan.setattrs)),
              SendTime(nic, min_msg)),
         QMul(Q(last.r.plan.writes), SendTime(nic, min_msg + last.bsize)))

\* C23 as stated: the back-side wire time t_back_w of a Gateway write is
\* computed from the minimum latency and the bandwidth of the back-side NIC,
\* and so is the bw_nb ceiling; the front-side NIC has no part in them
C23_BackTimesFromBackNic ==
    last.op = "Gateway.write" =>
        /\ last.r.t_back_w = BackSendTime(cfg.gateway.back)
        /\ last.r.bw_nb =
             QDiv(Q(cfg.gateway.num_backs * last.bsize * SECOND),
                  BackSendTime(cfg.gateway.back))

\* C24 as stated: the lock probability P_lock of a Gateway read or write is a
\* probability, 0 <= P_lock <= 1, so the lock cost t_lock charged to one
\* request never exceeds the latency of one DLM.lock()
C24_LockProbability ==
    IsGwRW =>
        /\ QLe(Q(0), last.r.p_lock)
        /\ QLe(last.r.p_lock, Q(1))
        /\ last.r.p_lock = P_lock(cfg.gateway, last.bsize, last.seq)
        /\ QLe(last.r.t_lock, LockLatency)

\* the seek distance of the random avgTime call just made
AvgCyls ==
    cylinders_in(cfg.disk, last.file_size)
        \div (queue_depth(cfg.disk, last.depth) + 2)

\* the seek term of the avgTime call just made: what it returned beyond the
\* transfer time and the rotational latency
SeekTerm ==
    QSub(last.r.latency,
         QAdd(xferTime(cfg.disk, last.bsize, last.read),
              Q(disk_latency(cfg.disk, last.bsize, last.read, last.seq,
                             queue_depth(cfg.disk, last.depth)))))

\* the last call was a random write of Disk.avgTime
IsRandomWrite ==
    last.op = "Disk.avgTime" /\ ~last.read /\ ~last.seq

\* C25 as stated: seekTime adds write_delta to every seek of a write, for
\* every distance cyls >= 0, hence every random write of avgTime pays
\* write_delta in its seek term
C25_WriteSeekPaysDelta ==
    /\ (last.op = "Disk.seekTime" /\ ~last.read) =>
         last.r.latency =
             QAdd(seekTime(cfg.disk, last.cyls, TRUE), Q(cfg.disk.write_delta))
    /\ IsRandomWrite =>
         SeekTerm = QAdd(seekTime(cfg.disk, AvgCyls, TRUE),
                         Q(cfg.disk.write_delta))

\* C25 amended: seekTime adds write_delta to every seek of a write across at
\* least one cylinder, and a seek across no cylinder takes no time, read or
\* write; hence a random write of avgTime pays write_delta in its seek term
\* when its seek distance cylinders_in(file_size) / (depth + 2) is at least 1,
\* and has no seek term when that distance is 0
C25_WriteSeekPaysDeltaBeyondZero ==
    /\ (last.op = "Disk.seekTime" /\ ~last.read) =>
         last.r.latency =
             IF last.cyls >= 1
             THEN QAdd(seekTime(cfg.disk, last.cyls, TRUE),
                       Q(cfg.disk.write_delta))
             ELSE Q(0)
    /\ IsRandomWrite =>
         SeekTerm =
             IF AvgCyls >= 1
             THEN QAdd(seekTime(cfg.disk, AvgCyls, TRUE),
                       Q(cfg.disk.write_delta))
             ELSE Q(0)

\* a random write to a file of several cylinders, on a drive that has a
\* write penalty
C25_Witness ==
    /\ IsRandomWrite
    /\ AvgCyls >= 1
    /\ cfg.disk.write_delta > 0
    /\ QLe(Q(cfg.disk.write_delta), SeekTerm)

\* the settle-down penalty of the transfer just made
SettlePenalty ==
    IF last.read THEN cfg.disk.settle_read
    ELSE cfg.disk.settle_read + cfg.disk.write_delta

\* the time the media takes for the bytes of the transfer just made
MediaTime == Q((last.bsize * SECOND) \div cfg.disk.media_speed)

\* C26 as stated: xferTime(bytes, read) is bytes * SECOND / media_speed plus
\* one settle-down penalty for each of ceil(bytes / cyl_size) crossings of a
\* cylinder boundary, a whole number of penalties
C26_WholePenalties ==
    last.op = "Disk.xferTime" =>
        last.r.latency =
            QAdd(MediaTime,
                 Q(((last.bsize + cfg.disk.cyl_size - 1) \div cfg.disk.cyl_size)
                   * SettlePenalty))

\* C26 amended: xferTime(bytes, read) is bytes * SECOND / media_speed plus the
\* settle-down penalty times bytes / cyl_size, the expected number of
\* crossings of a cylinder boundary, which is not rounded to a whole number:
\* a transfer of less than a cylinder is charged less than one penalty
C26_FractionalPenalties ==
    last.op = "Disk.xferTime" =>
        /\ QMul(QSub(last.r.latency, MediaTime), Q(cfg.disk.cyl_size))
             = Q(last.bsize * SettlePenalty)
        /\ (last.bsize < cfg.disk.cyl_size /\ SettlePenalty > 0) =>
             QLt(QSub(last.r.latency, MediaTime), Q(SettlePenalty))

\* a write of half a cylinder, charged half a penalty
C26_Witness ==
    /\ last.op = "Disk.xferTime"
    /\ ~last.read
    /\ 2 * last.bsize = cfg.disk.cyl_size
    /\ SettlePenalty > 0
    /\ QMul(Q(2), QSub(last.r.latency, MediaTime)) = Q(SettlePenalty)

\* the cost of one read of the unit data_width, as the file system of the
\* server gave it to the Server read just made
UnitRead ==
    fs_read(cfg.server.data_fs, last.r.fs_seq, last.r.fs_depth).t

\* C27 as stated: a Server read larger than the disk I/O unit is charged the
\* cost of one unit read times ceil(bsize / unit), a whole number of disk
\* operations, sequential or random; a random read no larger than the unit
\* is charged exactly one disk operation
C27_WholeDiskOps ==
    last.op = "Server.read" =>
        /\ last.bsize > data_width =>
             last.r.t_fs =
                 QMul(UnitRead,
                      Q((last.bsize + data_width - 1) \div data_width))
        /\ (~last.seq /\ last.bsize <= data_width) => last.r.t_fs = UnitRead

\* C27 amended: a Server read larger than the disk I/O unit is charged the
\* cost of one unit read times bsize / unit, which is a whole number of disk
\* operations only when bsize is a multiple of the unit, sequential or
\* random; a random read no larger than the unit is charged exactly one disk
\* operation
C27_ProportionalDiskOps ==
    last.op = "Server.read" =>
        /\ last.bsize > data_width =>
             QMul(last.r.t_fs, Q(data_width)) = QMul(UnitRead, Q(last.bsize))
        /\ (~last.seq /\ last.bsize <= data_width) => last.r.t_fs = UnitRead

\* a random read of one unit and a half, charged one unit read and a half
C27_Witness ==
    /\ last.op = "Server.read"
    /\ ~last.seq
    /\ 2 * last.bsize = 3 * data_width
    /\ QLt(Q(0), UnitRead)
    /\ QMul(Q(2), last.r.t_fs) = QMul(Q(3), UnitRead)

\* the last call was one of the three timing methods of the CPU
IsCpuCall == last.op \in {"CPU.process", "CPU.mem_read", "CPU.mem_write"}

\* C21 amended: mem_read(bytes) and mem_write(bytes) return
\* bytes * SECOND / min(bus_bw, mem_bw) and are equal; process(bytes) returns
\* bytes * SECOND / bus_bw, which is their value when bus_bw <= mem_bw and is
\* less when the memory is slower than the bus; all three are linear in bytes
C21_ProcessAtBusRate ==
    IsCpuCall =>
        /\ last.op # "CPU.process" => last.r.latency = LimitedTime(last.bsize)
        /\ last.op = "CPU.process" =>
             /\ QMul(last.r.latency, Q(cfg.cpu.bus_bw))
                  = Q(last.bsize * SECOND)
             /\ cfg.cpu.bus_bw <= cfg.cpu.mem_bw =>
                  last.r.latency = LimitedTime(last.bsize)
             /\ cfg.cpu.bus_bw > cfg.cpu.mem_bw =>
                  QLt(last.r.latency, LimitedTime(last.bsize))
        /\ mem_read(cfg.cpu, Q(last.bsize)) = mem_write(cfg.cpu, Q(last.bsize))
        /\ \A k \in 1 .. 3 :
             /\ process(cfg.cpu, Q(k * last.bsize))
                  = QMul(Q(k), process(cfg.cpu, Q(last.bsize)))
             /\ mem_read(cfg.cpu, Q(k * last.bsize))
                  = QMul(Q(k), mem_read(cfg.cpu, Q(last.bsize)))

\* bytes processed by a CPU whose memory is slower than its bus
C21_Witness ==
    /\ last.op = "CPU.process"
    /\ cfg.cpu.mem_bw < cfg.cpu.bus_bw
    /\ QLt(last.r.latency, mem_read(cfg.cpu, Q(last.bsize)))

\* the request just made is sequential and larger than a stripe
SpansStripes == last.seq /\ last.bsize > cfg.gateway.width * cfg.gateway.n

\* C24 amended: P_lock of a Gateway read or write is the expected number of
\* stripe locks of the request: it is positive, it is at most 1 unless the
\* request is sequential and larger than a stripe, where it is
\* bsize / (width * n) > 1; so the lock cost t_lock = P_lock * the latency of
\* DLM.lock() exceeds one lock latency for those requests only
C24_LocksPerRequest ==
    IsGwRW =>
        /\ QLt(Q(0), last.r.p_lock)
        /\ last.r.t_lock = QMul(last.r.p_lock, LockLatency)
        /\ ~SpansStripes =>
             /\ QLe(last.r.p_lock, Q(1))
             /\ QLe(last.r.t_lock, LockLatency)
        /\ SpansStripes =>
             /\ QMul(last.r.p_lock, Q(cfg.gateway.width * cfg.gateway.n))
                  = Q(last.bsize)
             /\ QLt(Q(1), last.r.p_lock)
             /\ QLt(LockLatency, last.r.t_lock)

\* a sequential Gateway read of more than a stripe, charged more than a lock
C24_Witness ==
    /\ last.op = "Gateway.read"
    /\ SpansStripes
    /\ QLt(LockLatency, last.r.t_lock)

\* ------------------------------------------------------------------
\* DataFS: the file system simulation driven by measured bandwidths
\* ------------------------------------------------------------------

\* linear interpolation (DataFS.interpolate); the y are bandwidths
interpolate(x1, y1, x2, y2, v) ==
    QAdd(y1, QDiv(QMul(QSub(y2, y1), Q(v - x1)), Q(x2)))

RECURSIVE log2(_)
\* the halving loop of DataFS.log2 on an integer
log2(x) ==
    IF x > 1 THEN 1 + log2(x \div 2) ELSE 0

\* "exponential interpolation" (DataFS.interp2)
interp2(x1, y1, x2, y2, v) ==
    interpolate(log2(x1), y1, log2(x2), y2, log2(v))

\* the depths the measured tables have an entry for
MeasuredDepths == {1, 32}

\* keys of a measured table: "{seq|rand}-{read|write}-{4k|128k|4m}-d{depth}"
FsKeys ==
    {"seq", "rand"} \X {"read", "write"} \X {"4k", "128k", "4m"}
        \X MeasuredDepths

\* a table of measured bandwidths: b1 at depth 1 and b32 at depth 32 for
\* random 4k transfers, more for sequential and for larger transfers
Measured(source, b1, b32) ==
    [source |-> source,
     bw |-> [k \in FsKeys |->
               (IF k[4] = 1 THEN b1 ELSE b32)
               * (IF k[1] = "seq" THEN 2 ELSE 1)
               * (CASE k[3] = "4k" -> 1 [] k[3] = "128k" -> 3
                    [] OTHER -> 5)]]

\* DataFS.__init__
DataFS(dict) ==
    [dict |-> dict, desc |-> dict.source, speed |-> 140 * MEG]

\* the throughput number DataFS.time chooses for a transfer size
fs_bs(bsize) ==
    IF bsize <= 32 * KB THEN "4k"
    ELSE IF bsize <= 1024 * KB THEN "128k" ELSE "4m"

\* the difference between the standard size of that number and bsize
fs_delta(bsize) ==
    IF bsize <= 32 * KB THEN 4 * KB - bsize
    ELSE IF bsize <= 1024 * KB THEN 128 * KB - bsize
    ELSE 4096 * KB - bsize

\* the measured bandwidth of a key; the table has no other depths
fs_measured(fs, op, seq, bsize, depth) ==
    Q(fs.dict.bw[<<IF seq THEN "seq" ELSE "rand", op, fs_bs(bsize), depth>>])

\* DataFS.time: the bandwidth used and the time of one operation; a depth
\* that has no entry and is not interpolated raises KeyError
DataFS_time(fs, op, seq, bsize, depth) ==
    IF ~(depth > 1 /\ depth < 32) /\ depth \notin MeasuredDepths
    THEN [raised |-> "KeyError", bw |-> Q(0), us |-> Q(0)]
    ELSE LET bw == IF depth > 1 /\ depth < 32
                   THEN interp2(1, fs_measured(fs, op, seq, bsize, 1),
                                32, fs_measured(fs, op, seq, bsize, 32),
                                depth)
                   ELSE fs_measured(fs, op, seq, bsize, depth)
         IN  [raised |-> "", bw |-> bw,
              us |-> QAdd(QDiv(Q(MEG * bsize), bw),
                          Frac(MEG * fs_delta(bsize), fs.speed))]

\* DataFS.read
DataFS_read(fs, bsize, seq, depth) ==
    DataFS_time(fs, "read", seq, bsize, depth)

\* DataFS.write: a sync write is a metadata write and a write at depth 1
DataFS_write(fs, bsize, seq, depth, sync) ==
    IF sync
    THEN LET m == DataFS_time(fs, "write", FALSE, bsize, 1)
             t == DataFS_time(fs, "write", seq, bsize, 1)
         IN  [t EXCEPT !.us = QAdd(m.us, t.us)]
    ELSE DataFS_time(fs, "write", seq, bsize, depth)

\* largest queue depth asked of a DataFS
MaxFsDepth == 33

\* transfer sizes asked of a DataFS
FsSizes == {2, 64, 2048}

\* measured tables: deeper queues faster, slower, or no different
FsConfigs ==
    { [name |-> "deeper faster", fs |-> DataFS(Measured("faster", 10, 60))],
      [name |-> "deeper slower", fs |-> DataFS(Measured("slower", 60, 10))],
      [name |-> "flat", fs |-> DataFS(Measured("flat", 30, 30))],
      [name |-> "slightly faster", fs |-> DataFS(Measured("slightly", 30, 31))] }

InitFs ==
    /\ cfg \in FsConfigs
    /\ last = [op |-> "none"]
    /\ svr_warnings = <<>>
    /\ gw_warnings = <<>>
    /\ calls = 0

FsRead ==
    \E bsize \in FsSizes, seq \in BOOLEAN, depth \in 1..MaxFsDepth :
        /\ calls < MaxCalls
        /\ last' = [op |-> "DataFS.read", bsize |-> bsize, seq |-> seq,
                    depth |-> depth, sync |-> FALSE,
                    r |-> DataFS_read(cfg.fs, bsize, seq, depth)]
        /\ calls' = calls + 1
        /\ UNCHANGED <<cfg, svr_warnings, gw_warnings>>

FsWrite ==
    \E bsize \in FsSizes, seq \in BOOLEAN, depth \in 1..MaxFsDepth,
       sync \in BOOLEAN :
        /\ calls < MaxCalls
        /\ last' = [op |-> "DataFS.write", bsize |-> bsize, seq |-> seq,
                    depth |-> depth, sync |-> sync,
                    r |-> DataFS_write(cfg.fs, bsize, seq, depth, sync)]
        /\ calls' = calls + 1
        /\ UNCHANGED <<cfg, svr_warnings, gw_warnings>>

NextFs ==
    \/ FsRead
    \/ FsWrite

SpecFs == InitFs /\ [][NextFs]_vars

\* the call just made went through DataFS.time once, at its own depth
IsFsTime ==
    /\ last.op \in {"DataFS.read", "DataFS.write"}
    /\ ~last.sync
    /\ last.r.raised = ""

\* the measured bandwidth at a depth for the key of the call just made
FsBw(depth) ==
    fs_measured(cfg.fs, IF last.op = "DataFS.read" THEN "read" ELSE "write",
                last.seq, last.bsize, depth)

\* the bandwidth DataFS.time uses for the key of the call just made at
\* another depth
FsBwAt(depth) ==
    DataFS_time(cfg.fs, IF last.op = "DataFS.read" THEN "read" ELSE "write",
                last.seq, last.bsize, depth).bw

\* q lies strictly between a and b
StrictlyBetween(q, a, b) ==
    \/ QLt(a, q) /\ QLt(q, b)
    \/ QLt(b, q) /\ QLt(q, a)

\* bw1 + (bw32 - bw1) * k / log2(32) for a whole number k
LogLinear(k) ==
    QAdd(FsBw(1), QDiv(QMul(QSub(FsBw(32), FsBw(1)), Q(k)), Q(5)))

\* C28: for 1 < depth < 32 DataFS.time uses the bandwidth
\* bw1 + (bw32 - bw1) * log2(depth) / log2(32): exactly that value at a power
\* of two, and between the values of the neighbouring powers of two at any
\* other depth; when bw1 differs from bw32 it lies strictly between bw1 and
\* bw32 and no other intermediate depth gets the same bandwidth; at depth 1
\* and depth 32 the measured value is used unchanged
C28_LogLinearBandwidth ==
    IsFsTime =>
        /\ last.depth \in MeasuredDepths => last.r.bw = FsBw(last.depth)
        /\ (last.depth > 1 /\ last.depth < 32) =>
             LET k == log2(last.depth)
             IN  /\ last.depth = 2 ^ k => last.r.bw = LogLinear(k)
                 /\ (last.depth # 2 ^ k /\ FsBw(1) # FsBw(32)) =>
                      StrictlyBetween(last.r.bw, LogLinear(k),
                                      LogLinear(k + 1))
                 /\ FsBw(1) # FsBw(32) =>
                      /\ StrictlyBetween(last.r.bw, FsBw(1), FsBw(32))
                      /\ \A d \in 2..31 :
                            d # last.depth => FsBwAt(d) # last.r.bw

\* ------------------------------------------------------------------
\* two servers and two gateways: the class attribute "warnings" and the
\* attribute each instance binds
\* ------------------------------------------------------------------

\* the instances of a class
Instances == {1, 2}

\* the attribute of the class statement (warnings = "") and no attribute
\* bound on any instance yet
ClassWarnings ==
    [class |-> <<>>,
     inst |-> [i \in Instances |-> [bound |-> FALSE, value |-> <<>>]]]

\* self.warnings read on instance i: the attribute of the instance when it
\* has one, the attribute of the class otherwise
self_warnings(ns, i) ==
    IF ns.inst[i].bound THEN ns.inst[i].value ELSE ns.class

\* the accumulated warnings kept in the attribute of the class
self_bind_on_class(ns, i, w) ==
    [ns EXCEPT !.class = w]

\* "self.warnings += msg" on a string: the longer string is bound on the
\* instance; nothing is assigned when warn() finds the message
self_bind(ns, i, w) ==
    IF w = self_warnings(ns, i) THEN ns
    ELSE [ns EXCEPT !.inst[i] = [bound |-> TRUE, value |-> w]]

\* the warn(self, msg) calls of one operation on instance i, in order: each
\* reads self.warnings and binds the longer string on the instance
self_warn_all(ns, i, msgs) ==
    self_bind(ns, i, warn_all(self_warnings(ns, i), msgs))

\* the messages of a sequence
Msgs(seq) == {seq[k] : k \in 1 .. Len(seq)}

\* a call on instance i: the call, and the messages warn() has been called
\* with on each server and each gateway so far
InstCall(op, i, bsize, depth, seq, r, svr_msgs, gw_msgs) ==
    [op |-> op, inst |-> i, bsize |-> bsize, depth |-> depth, seq |-> seq,
     r |-> r,
     svr_recorded |-> [last.svr_recorded EXCEPT ![i] = @ \cup Msgs(svr_msgs)],
     gw_recorded |-> [last.gw_recorded EXCEPT ![i] = @ \cup Msgs(gw_msgs)]]

\* the calls made on the instances of one class
MaxInstCalls == 2

InitInst ==
    /\ cfg \in SweepConfigs
    /\ last = [op |-> "none",
               svr_recorded |-> [i \in Instances |-> {}],
               gw_recorded |-> [i \in Instances |-> {}]]
    /\ svr_warnings = ClassWarnings
    /\ gw_warnings = ClassWarnings
    /\ calls = 0

InstSrvRead ==
    /\ calls < MaxInstCalls
    /\ \E i \in Instances, bsize \in SweepSizes, depth \in SweepDepths,
          seq \in BOOLEAN :
         \E r \in {ServerRead(cfg.server, bsize, depth, seq)} :
             /\ last' = InstCall("Server.read", i, bsize, depth, seq, r,
                                 r.warns, <<>>)
             /\ svr_warnings' = self_warn_all(svr_warnings, i, r.warns)
    /\ calls' = calls + 1
    /\ UNCHANGED <<cfg, gw_warnings>>

InstSrvWrite ==
    /\ calls < MaxInstCalls
    /\ \E i \in Instances, bsize \in SweepSizes, depth \in SweepDepths,
          seq \in BOOLEAN :
         \E r \in {ServerWrite(cfg.server, bsize, depth, seq)} :
             /\ last' = InstCall("Server.write", i, bsize, depth, seq, r,
                                 r.warns, <<>>)
             /\ svr_warnings' = self_warn_all(svr_warnings, i, r.warns)
    /\ calls' = calls + 1
    /\ UNCHANGED <<cfg, gw_warnings>>

\* gateway i sends its requests to server i
InstGwRead ==
    /\ calls < MaxInstCalls
    /\ \E i \in Instances, c \in SweepCalls(GwReadCalls) :
         \E r \in {GatewayRead(cfg.gateway, c[1], c[2], c[3])} :
             /\ last' = InstCall("Gateway.read", i, c[1], c[2], c[3], r,
                                 r.svr_warns, r.warns)
             /\ gw_warnings' = self_warn_all(gw_warnings, i, r.warns)
             /\ svr_warnings' = self_warn_all(svr_warnings, i, r.svr_warns)
    /\ calls' = calls + 1
    /\ UNCHANGED cfg

InstGwWrite ==
    /\ calls < MaxInstCalls
    /\ \E i \in Instances, c \in SweepCalls(GwWriteCalls) :
         \E r \in {GatewayWrite(cfg.gateway, c[1], c[2], c[3])} :
             /\ last' = InstCall("Gateway.write", i, c[1], c[2], c[3], r,
                                 r.svr_warns, r.warns)
             /\ gw_warnings' = self_warn_all(gw_warnings, i, r.warns)
             /\ svr_warnings' = self_warn_all(svr_warnings, i, r.svr_warns)
    /\ calls' = calls + 1
    /\ UNCHANGED cfg

NextInst ==
    \/ InstSrvRead
    \/ InstSrvWrite
    \/ InstGwRead
    \/ InstGwWrite

SpecInst == InitInst /\ [][NextInst]_vars

\* C29: the warnings of an instance are the messages recorded through that
\* instance and no others: a warning recorded through one Server or Gateway
\* only is not in the warnings of the other instance of the class, and an
\* instance through which none was recorded has empty warnings
C29_WarningsPerInstance ==
    \A i \in Instances :
        /\ Msgs(self_warnings(svr_warnings, i)) = last.svr_recorded[i]
        /\ Msgs(self_warnings(gw_warnings, i)) = last.gw_recorded[i]
        /\ last.svr_recorded[i] = {} => self_warnings(svr_warnings, i) = <<>>
        /\ last.gw_recorded[i] = {} => self_warnings(gw_warnings, i) = <<>>

\* server 1 and gateway 1 have recorded warnings, server 2 and gateway 2
\* have recorded none
C29_Witness ==
    /\ last.op # "none"
    /\ self_warnings(svr_warnings, 1) # <<>>
    /\ self_warnings(gw_warnings, 1) # <<>>
    /\ last.svr_recorded[2] = {}
    /\ last.gw_recorded[2] = {}

\* the call just made is a read seek on a Disk or a DumbDisk
IsReadSeek ==
    /\ last.op = "Disk.seekTime"
    /\ last.read
    /\ cfg.disk.kind \in {"Disk", "DumbDisk"}

\* the long seek extrapolated back from the full stroke
LongSeek(cyls) ==
    QSub(Q(cfg.disk.max_seek),
         QMul(Q(cfg.disk.cylinders - cyls),
              Frac(cfg.disk.max_seek - cfg.disk.avg_seek,
                   (2 * cfg.disk.cylinders) \div 3)))

\* the short seek approximated from the read settle-down
ShortSeek(cyls) ==
    Q(cfg.disk.settle_read + ((cyls - 1) * cfg.disk.settle_read) \div 2)

\* C30: seekTime(cyls, read=True) of a Disk or DumbDisk with its default seek
\* constants is non-negative, at most max_seek, no more than the seek time of
\* one cylinder further, equal to max_seek for cyls >= cylinders, and the
\* lesser of the long-seek extrapolation and the short-seek approximation for
\* 1 <= cyls < cylinders
C30_SeekBoundedMonotone ==
    IsReadSeek =>
        /\ QLe(Q(0), last.r.latency)
        /\ QLe(last.r.latency, Q(cfg.disk.max_seek))
        /\ QLe(last.r.latency, seekTime(cfg.disk, last.cyls + 1, TRUE))
        /\ last.cyls >= cfg.disk.cylinders =>
             last.r.latency = Q(cfg.disk.max_seek)
        /\ (1 <= last.cyls /\ last.cyls < cfg.disk.cylinders) =>
             last.r.latency = QMin(LongSeek(last.cyls), ShortSeek(last.cyls))

\* a read seek short of the full stroke where the long-seek extrapolation is
\* the lesser estimate
C30_Witness ==
    /\ IsReadSeek
    /\ 1 <= last.cyls
    /\ last.cyls < cfg.disk.cylinders
    /\ QLt(LongSeek(last.cyls), ShortSeek(last.cyls))
    /\ last.r.latency = LongSeek(last.cyls)

=============================================================================
